---- MODULE Spec2Model ----
(***************************************************************************)
(* Phased convergence engine of the apim CLI (scripts/cli).                *)
(*                                                                         *)
(* The module models the commands `apply` and `plan` (commands/core.py),   *)
(* the orchestration in run_terraform, the bootstrap phase                 *)
(* (_run_bootstrap_folder), the blind adoption (_adopt_main_resources) and *)
(* the `import` command of commands/import.py, at the granularity of one   *)
(* action per subprocess call.  Every subprocess call is appended to the   *)
(* history variable `calls` together with the environment it was given.    *)
(*                                                                         *)
(* Three smaller machines share the module: TerraformStager.stage_phase    *)
(* step by step, for one or two invocations working on the same staging    *)
(* directories (SpecStage, SpecConc); the state readers get_status and     *)
(* extract_vars_from_state (SpecStatus); and the registered `import`       *)
(* command of commands/import_cmd.py (SpecImportCmd).  SpecCmdImport is    *)
(* cmd_import of commands/import_.py, the import of main.py.  SpecLib      *)
(* applies the functions ApigeeOrgConfig.validate / from_json_file         *)
(* (schemas.py) and _retry_terraform (commands/tests.py) to inputs drawn   *)
(* from bounded sets.                                                      *)
(***************************************************************************)
EXTENDS Integers, Sequences, FiniteSets, TLC

VARIABLES
    pc,             \* position of the running command
    inp,            \* command line of the current invocation
    tfvars,         \* <cwd>/terraform.tfvars
    stateFiles,     \* persisted 1-main terraform.tfstate, per state suffix
    osenv,          \* os.environ of the process
    runs,           \* number of invocations started so far
    impersonated,   \* an earlier run passed a service identity to a 1-main command
    vars_to_inject, \* apply: the resolved variable map
    gen_vars,       \* 1-main staging: _apim_gen.auto.tfvars.json
    schema,         \* the ApigeeOrgConfig loaded from a template or discovered
    sa_email,       \* result of _run_bootstrap_folder
    env,            \* the env dict built for the main phase
    calls,          \* history: subprocess / staging calls of this invocation
    idx,            \* adoption: index of the next candidate
    state_check,    \* try_import: stdout of `terraform state list <addr>`
    proc,           \* try_import: result of `terraform import`
    records,        \* import command: classification printed per candidate
    ret,            \* return value of run_terraform
    exit_code,      \* process exit code
    why,            \* which statement ended the invocation
    root_files,     \* staging: the files of the project root
    cache_dir,      \* staging: what get_cache_dir() returns
    tfstates,       \* staging: the terraform.tfstate files on disk, by path
    staging,        \* staging: <cache>/<project>[/<suffix>]/tf/<phase>, per phase
    stager,         \* staging: per invocation, its position in stage_phase
    state_file,     \* state readers: <data>/<project>/tf/1-main/terraform.tfstate
    snapshot,       \* state readers: result of get_status
    read_vars,      \* state readers: result of extract_vars_from_state
    paths_read,     \* readers: the state path each reader has opened, <<>> before
    ic_pc,          \* import_cmd.py: position of the command
    ic_args,        \* import_cmd.py: command line and what the cloud holds
    var_file,       \* import_cmd.py: the local config file
    ic_exit,        \* import_cmd.py: process exit code
    ci_in,          \* import_.py: command line, template, cloud and config file
    ci,             \* import_.py: position, locals and files of cmd_import
    lib_in,         \* library functions: the arguments of the call
    lib_out         \* library functions: what the call returned and did

\* the variables of run_terraform, apply, plan and import.py
main == <<pc, inp, tfvars, stateFiles, osenv, runs, impersonated, vars_to_inject, gen_vars, schema,
          sa_email, env, calls, idx, state_check, proc, records, ret, exit_code, why>>

\* the variables of stage_phase
stage == <<root_files, cache_dir, tfstates, staging, stager>>

\* the variables of the state readers
reader == <<state_file, snapshot, read_vars, paths_read>>

\* the variables of import_cmd.py and of import_.py
icmd == <<ic_pc, ic_args, var_file, ic_exit, ci_in, ci>>

\* the variables of the library functions
lib == <<lib_in, lib_out>>

vars == <<main, stage, reader, icmd, lib>>

----------------------------------------------------------------------------
(* Bounds *)

MaxRuns == 2

\* largest `retries` given to _retry_terraform
MaxRetries == 3

----------------------------------------------------------------------------
(* Values *)

NoneVal == "None"
NoCode == -1000
PROJECT == "proj"
SA == "terraform-deployer@proj.iam.gserviceaccount.com"
BOOT == "0-bootstrap"
MAIN == "1-main"
NODIR == "-"

ORG == "google_apigee_organization.apigee_org"
NET == "google_compute_network.apigee_network"
INST == "google_apigee_instance.apigee_instance"
ENVR == "google_apigee_environment.apigee_env[dev]"
EGRP == "google_apigee_envgroup.envgroup[eval-group]"
Addr == {ORG, NET, INST, ENVR, EGRP}

Suffixes == {"", "dev"}
ExitCodes == {1, 2}

\* Python truthiness of an Optional[str]
Truthy(s) == s # NoneVal /\ s # ""

\* `sub in s` for the region strings of the model
HasSub(s, sub) ==
    \/ sub = "northamerica" /\ s = "northamerica-northeast1"
    \/ sub = "europe" /\ s = "europe-west1"
    \/ sub = "australia" /\ s = "australia-southeast1"
    \/ sub = "asia" /\ s = "asia-southeast1"

----------------------------------------------------------------------------
(* Templates: the JSON files a TEMPLATE_NAME can resolve to *)

TemplateNames == {"t_east", "t_central", "t_drz", "t_noruntime", "t_unknown", "t_missing"}
NoTemplate == "-"

TemplateFile(name) ==
    CASE name = "t_east" ->
           [found |-> TRUE, unknown |-> FALSE, billing_type |-> "PAYG", drz |-> FALSE,
            analytics_region |-> "us-east1", runtime_location |-> "us-east1",
            control_plane_location |-> NoneVal, consumer_data_region |-> NoneVal]
      [] name = "t_central" ->
           [found |-> TRUE, unknown |-> FALSE, billing_type |-> "PAYG", drz |-> FALSE,
            analytics_region |-> "us-central1", runtime_location |-> "us-central1",
            control_plane_location |-> NoneVal, consumer_data_region |-> NoneVal]
      [] name = "t_drz" ->
           [found |-> TRUE, unknown |-> FALSE, billing_type |-> "PAYG", drz |-> TRUE,
            analytics_region |-> NoneVal, runtime_location |-> "northamerica-northeast1",
            control_plane_location |-> "ca",
            consumer_data_region |-> "northamerica-northeast1"]
      [] name = "t_noruntime" ->
           [found |-> TRUE, unknown |-> FALSE, billing_type |-> "EVALUATION", drz |-> FALSE,
            analytics_region |-> "us-central1", runtime_location |-> NoneVal,
            control_plane_location |-> NoneVal, consumer_data_region |-> NoneVal]
      [] name = "t_unknown" ->
           [found |-> TRUE, unknown |-> TRUE, billing_type |-> "PAYG", drz |-> FALSE,
            analytics_region |-> "us-east1", runtime_location |-> "us-east1",
            control_plane_location |-> NoneVal, consumer_data_region |-> NoneVal]
      [] OTHER ->
           [found |-> FALSE, unknown |-> FALSE, billing_type |-> "EVALUATION", drz |-> FALSE,
            analytics_region |-> NoneVal, runtime_location |-> NoneVal,
            control_plane_location |-> NoneVal, consumer_data_region |-> NoneVal]

\* variant: DRZ is accepted with any billing type
validate_anyBilling(s) ==
    /\ IF s.drz
       THEN /\ ~Truthy(s.analytics_region)
            /\ Truthy(s.control_plane_location)
            /\ Truthy(s.consumer_data_region)
       ELSE /\ ~(Truthy(s.control_plane_location) \/ Truthy(s.consumer_data_region))
            /\ Truthy(s.analytics_region)
    /\ Truthy(s.runtime_location)

\* ApigeeOrgConfig.validate: TRUE iff no SchemaValidationError is raised
validate(s) ==
    /\ IF s.drz
       THEN /\ ~Truthy(s.analytics_region)
            /\ Truthy(s.control_plane_location)
            /\ Truthy(s.consumer_data_region)
            /\ s.billing_type # "EVALUATION"
       ELSE /\ ~(Truthy(s.control_plane_location) \/ Truthy(s.consumer_data_region))
            /\ Truthy(s.analytics_region)
    /\ Truthy(s.runtime_location)

\* variant: the loader also rejects a template that contradicts the main state
from_json_file_ok_conflict(name) ==
    LET t == TemplateFile(name)
        st == stateFiles[IF tfvars.exists /\ Truthy(tfvars.state_suffix)
                         THEN tfvars.state_suffix ELSE ""]
    IN /\ t.found /\ ~t.unknown /\ validate(t)
       /\ ~("google_apigee_instance.apigee_instance" \in st.managed
            /\ st.location # t.runtime_location)

\* resolve_template_path + ApigeeOrgConfig.from_json_file: TRUE iff they return
from_json_file_ok(name) ==
    LET t == TemplateFile(name) IN t.found /\ ~t.unknown /\ validate(t)

----------------------------------------------------------------------------
(* The persisted 1-main state file *)

StdOrg == [billing_type |-> "PAYG", analytics_region |-> "us-central1",
           api_consumer_data_location |-> NoneVal]
NoState == [exists |-> FALSE, managed |-> {}, orgVals |-> StdOrg, location |-> "us-central1"]

FullState == [exists |-> TRUE, managed |-> Addr, orgVals |-> StdOrg, location |-> "us-central1"]

\* the key of `stateFiles` that get_state_path(project, phase, suffix) names
get_state_path(suffix) == IF Truthy(suffix) THEN suffix ELSE ""

EmptyVars == [k \in {} |-> ""]

\* TerraformStager.extract_vars_from_state, after a successful `show -json`
ExtractFromResources(st) ==
    LET hasOrg == ORG \in st.managed
        hasInst == INST \in st.managed
        consumer_loc == st.orgVals.api_consumer_data_location
        drz == hasOrg /\ Truthy(consumer_loc)
        cp == IF drz /\ HasSub(consumer_loc, "northamerica") THEN "ca"
              ELSE IF drz /\ HasSub(consumer_loc, "europe") THEN "eu"
              ELSE ""
        keys == (IF hasOrg THEN {"apigee_billing_type", "apigee_analytics_region"} ELSE {})
                \cup (IF drz THEN {"consumer_data_region"} ELSE {})
                \cup (IF hasInst THEN {"apigee_runtime_location"} ELSE {})
        allkeys == IF keys # {} THEN keys \cup {"control_plane_location"} ELSE keys
    IN [k \in allkeys |->
          CASE k = "apigee_billing_type" -> st.orgVals.billing_type
            [] k = "apigee_analytics_region" -> st.orgVals.analytics_region
            [] k = "consumer_data_region" -> consumer_loc
            [] k = "apigee_runtime_location" -> st.location
            [] OTHER -> cp]

\* the whole of extract_vars_from_state: the path it reads carries no suffix
extract_vars_from_state(files, showRc) ==
    LET st == files[get_state_path(NoneVal)] IN
    IF ~st.exists THEN EmptyVars
    ELSE IF showRc # 0 THEN EmptyVars
    ELSE ExtractFromResources(st)

\* variant: a managed instance's location overrides the template's
TemplateVars_merged(sch, project_id) ==
    LET st == stateFiles[""] IN
    [apigee_billing_type |-> sch.billing_type,
     apigee_runtime_location |->
        IF INST \in st.managed THEN st.location ELSE sch.runtime_location,
     apigee_analytics_region |-> sch.analytics_region,
     control_plane_location |->
        IF Truthy(sch.control_plane_location) THEN sch.control_plane_location ELSE "",
     consumer_data_region |->
        IF Truthy(sch.consumer_data_region) THEN sch.consumer_data_region ELSE "",
     gcp_project_id |-> project_id]

\* apply, template branch: the flat vars built from the schema
TemplateVars(sch, project_id) ==
    [apigee_billing_type |-> sch.billing_type,
     apigee_runtime_location |-> sch.runtime_location,
     apigee_analytics_region |-> sch.analytics_region,
     control_plane_location |->
        IF Truthy(sch.control_plane_location) THEN sch.control_plane_location ELSE "",
     consumer_data_region |->
        IF Truthy(sch.consumer_data_region) THEN sch.consumer_data_region ELSE "",
     gcp_project_id |-> project_id]

\* variant: the emptiness check is missing
NoVars_never(v) == FALSE

\* apply: `if not vars_to_inject`
NoVars(v) == DOMAIN v = {}

----------------------------------------------------------------------------
(* click: ctx.exit(code) raises click.exceptions.Exit, a RuntimeError; inside *)
(* a `try ... except Exception` block the handler catches it and exits 1.     *)

ExitInsideTry(code) == 1

----------------------------------------------------------------------------
(* Subprocess environments and the call history *)

EnvUnset == "unset"

\* the record appended to `calls` for one subprocess.run / staging call
Call(op, dir, arg, e, out, args) ==
    [op |-> op, dir |-> dir, arg |-> arg, env |-> e, out |-> out, args |-> args, rc |-> 0]

\* the same call, exiting with code rc
CallRc(op, dir, arg, e, rc) == [Call(op, dir, arg, e, {}, <<>>) EXCEPT !.rc = rc]

\* _run_bootstrap_folder: env = os.environ.copy(); env[QUOTA] = project
BootEnv == [osenv EXCEPT !.quota = PROJECT]

\* variant: the service account is impersonated whatever the flag
MainEnv_always(skip, email) == [imp |-> SA, quota |-> PROJECT]

\* run_terraform: env = os.environ.copy(); impersonation only when not skipped
MainEnv(skip, email) ==
    [imp |-> IF ~skip /\ Truthy(email) THEN email ELSE osenv.imp, quota |-> PROJECT]

\* variant: `if sa_email is None: return 1`
BootstrapFailed_isNone(email) == email = NoneVal

\* run_terraform: `if not sa_email: return 1`
BootstrapFailed(email) == ~Truthy(email)

\* ConfigLoader.load: the state suffix of the loaded configuration
ConfigSuffix == IF tfvars.exists THEN tfvars.state_suffix ELSE ""

\* _generate_backend: the state file the 1-main backend points at
BackendKey == get_state_path(ConfigSuffix)

----------------------------------------------------------------------------
(* Command lines *)

Cmd(cli, template, skip, bonly, f, force) ==
    [cli |-> cli, template |-> template, skip_impersonation |-> skip,
     bootstrap_only |-> bonly, auto_approve |-> f.auto_approve,
     fake_secret |-> f.fake_secret, deletes_allowed |-> f.deletes_allowed,
     force |-> force]

NoFlags == [auto_approve |-> FALSE, fake_secret |-> FALSE, deletes_allowed |-> FALSE]

\* plan: run_terraform(config, "plan", skip_impersonation=True)
PlanInputs == { Cmd("plan", NoTemplate, TRUE, FALSE, NoFlags, FALSE) }

Inputs ==
    LET ImportInputs ==
            { Cmd("import", t, FALSE, FALSE, NoFlags, force) :
                t \in {NoTemplate, "t_east", "t_noruntime"}, force \in BOOLEAN }
    IN
    LET ApplyInputs ==
            LET FlagChoices ==
                    { [auto_approve |-> FALSE, fake_secret |-> FALSE, deletes_allowed |-> FALSE],
                      [auto_approve |-> TRUE, fake_secret |-> TRUE, deletes_allowed |-> TRUE] }
            IN
            { Cmd("apply", t, s, b, f, FALSE) :
                t \in TemplateNames \cup {NoTemplate}, s \in BOOLEAN, b \in BOOLEAN, f \in FlagChoices }
    IN
    ApplyInputs \cup PlanInputs \cup ImportInputs

----------------------------------------------------------------------------
(* Initial state *)

TfvarsChoices ==
    { [exists |-> FALSE, state_suffix |-> "", generated |-> FALSE],
      [exists |-> TRUE, state_suffix |-> "", generated |-> FALSE],
      [exists |-> TRUE, state_suffix |-> "dev", generated |-> FALSE] }

NoProc == [rc |-> 0, stderr |-> <<"-">>]

\* the locals of an invocation before its first statement
FreshLocals ==
    [vars_to_inject |-> EmptyVars, gen_vars |-> EmptyVars, sa_email |-> NoneVal,
     schema |-> TemplateFile(NoTemplate),
     env |-> [imp |-> EnvUnset, quota |-> EnvUnset], calls |-> <<>>, idx |-> 1,
     state_check |-> {}, proc |-> NoProc, records |-> <<>>, ret |-> NoCode, exit_code |-> NoCode,
     why |-> ""]

\* the staging machine at rest
StageOff ==
    /\ root_files = {}
    /\ cache_dir = "cache_root"
    /\ tfstates = {}
    /\ staging = [ph \in {BOOT, MAIN} |-> EmptyVars]
    /\ stager = [p \in {1, 2} |-> [pos |-> "off", phase |-> BOOT, n |-> 0, kills |-> 0]]

\* the state readers at rest
ReaderOff ==
    /\ state_file = [exists |-> FALSE, json |-> "ok", org |-> FALSE, consumer |-> NoneVal,
                     instances |-> <<>>, environments |-> <<>>]
    /\ snapshot = [read |-> FALSE, none |-> TRUE, project_id |-> "UNKNOWN",
                    runtime_location |-> "-", environments |-> <<>>, instances |-> <<>>,
                     control_plane_location |-> NoneVal]
    /\ read_vars = [read |-> FALSE, vars |-> EmptyVars]
    /\ paths_read = [extract |-> <<>>, update |-> <<>>, status |-> <<>>, org_found |-> FALSE]

\* no library function is being called
LibOff ==
    /\ lib_in = [kind |-> "none"]
    /\ lib_out = [done |-> FALSE]

\* import_cmd.py at rest
IcmdOff ==
    /\ ic_pc = "off"
    /\ ic_args = [project |-> NoneVal, label |-> NoneVal, force |-> FALSE,
                  label_project |-> NoneVal, org_found |-> FALSE, import_ok |-> FALSE,
                  existing |-> NoneVal]
    /\ var_file = NoneVal
    /\ ic_exit = NoCode
    /\ ci_in = [template |-> "none"]
    /\ ci = [pc |-> "off"]

Init ==
    LET StateChoices ==
            LET DrzOrg == [billing_type |-> "PAYG", analytics_region |-> NoneVal,
                           api_consumer_data_location |-> "northamerica-northeast1"]
            IN
            { NoState,
              [exists |-> TRUE, managed |-> {}, orgVals |-> StdOrg, location |-> "us-central1"],
              [exists |-> TRUE, managed |-> {NET}, orgVals |-> StdOrg, location |-> "us-central1"],
              FullState,
              [exists |-> TRUE, managed |-> {ORG}, orgVals |-> DrzOrg, location |-> "us-central1"] }
    IN
    /\ LibOff
    /\ pc = "start"
    /\ inp \in Inputs
    /\ tfvars \in TfvarsChoices
    /\ stateFiles \in { f \in [Suffixes -> StateChoices] : f["dev"] \in {NoState, FullState} }
    /\ osenv = [imp |-> EnvUnset, quota |-> EnvUnset]
    /\ runs = 1
    /\ impersonated = FALSE
    /\ vars_to_inject = FreshLocals.vars_to_inject
    /\ gen_vars = FreshLocals.gen_vars
    /\ sa_email = FreshLocals.sa_email
    /\ schema = FreshLocals.schema
    /\ env = FreshLocals.env
    /\ calls = FreshLocals.calls
    /\ idx = FreshLocals.idx
    /\ state_check = FreshLocals.state_check
    /\ proc = FreshLocals.proc
    /\ records = FreshLocals.records
    /\ ret = FreshLocals.ret
    /\ exit_code = FreshLocals.exit_code
    /\ why = FreshLocals.why
    /\ StageOff
    /\ ReaderOff
    /\ IcmdOff

----------------------------------------------------------------------------
(* Helpers for the actions *)

Log(cs) == calls' = calls \o cs

persisted == <<tfvars, stateFiles, osenv, runs, impersonated>>
locals == <<vars_to_inject, gen_vars, schema, sa_email, env, idx, state_check, proc, records, ret>>

\* an exception reaches the command's `except Exception` handler: exit 1
Raise(reason) ==
    /\ pc' = "done"
    /\ exit_code' = 1
    /\ why' = reason

----------------------------------------------------------------------------
(* apply / plan: commands/core.py *)

\* apply, lines 268-299: load the config and resolve the variables
ApplyResolve ==
    /\ UNCHANGED <<stage, reader, icmd, lib>>
    /\ pc = "start"
    /\ inp.cli = "apply"
    /\ UNCHANGED <<inp, persisted, gen_vars, sa_email, env, idx, state_check, proc, records, ret>>
    /\ schema' = IF tfvars.exists /\ inp.template # NoTemplate /\ from_json_file_ok(inp.template)
                 THEN TemplateFile(inp.template)
                 ELSE schema
    /\ IF ~tfvars.exists
       THEN \* ConfigLoader.find_root raises FileNotFoundError
            /\ Raise("no_config")
            /\ UNCHANGED <<vars_to_inject, calls>>
       ELSE IF inp.template # NoTemplate
       THEN IF from_json_file_ok(inp.template)
            THEN /\ vars_to_inject' = TemplateVars(TemplateFile(inp.template), PROJECT)
                 /\ pc' = "rt_entry"
                 /\ UNCHANGED <<calls, exit_code, why>>
            ELSE /\ Raise("template_error")
                 /\ UNCHANGED <<vars_to_inject, calls>>
       ELSE \E showRc \in {0, 1} :
            LET extracted == extract_vars_from_state(stateFiles, showRc)
                showed == stateFiles[get_state_path(NoneVal)].exists
            IN /\ vars_to_inject' = extracted
               /\ Log(IF showed
                      THEN <<CallRc("show", NODIR, "", osenv, showRc)>>
                      ELSE <<>>)
               /\ IF NoVars(extracted)
                  THEN /\ pc' = "done"
                       /\ exit_code' = ExitInsideTry(1)
                       /\ why' = "no_state"
                  ELSE /\ pc' = "rt_entry"
                       /\ UNCHANGED <<exit_code, why>>

\* plan, lines 238-244
PlanStart ==
    /\ UNCHANGED <<stage, reader, icmd, lib>>
    /\ pc = "start"
    /\ inp.cli = "plan"
    /\ UNCHANGED <<inp, persisted, locals, calls>>
    /\ IF ~tfvars.exists
       THEN Raise("no_config")
       ELSE /\ pc' = "rt_entry"
            /\ UNCHANGED <<exit_code, why>>

\* variant: the variables are set in os.environ itself
environ_after_shared(os_environ, child_env) == child_env

\* line 209: env = os.environ.copy(); lines 210-213 assign to the copy only
environ_after(os_environ, child_env) == os_environ

\* variant: bootstrap_only is not looked at
PostBootstrap_goOn(email) ==
    /\ env' = MainEnv(inp.skip_impersonation, email)
    /\ osenv' = environ_after(osenv, env')
    /\ pc' = "m_stage"
    /\ UNCHANGED <<ret, why>>

\* run_terraform, lines 191-213: after the bootstrap step
PostBootstrap(email) ==
    IF inp.bootstrap_only
    THEN /\ ret' = 0
         /\ pc' = "rt_ret"
         /\ why' = "bootstrap_only"
         /\ UNCHANGED <<env, osenv>>
    ELSE /\ env' = MainEnv(inp.skip_impersonation, email)
         /\ osenv' = environ_after(osenv, env')
         /\ pc' = "m_stage"
         /\ UNCHANGED <<ret, why>>

\* run_terraform, lines 180-193, with skip_impersonation
RT_Start ==
    /\ UNCHANGED <<stage, reader, icmd, lib>>
    /\ pc = "rt_entry"
    /\ UNCHANGED <<inp, tfvars, stateFiles, runs, impersonated, vars_to_inject, gen_vars, schema,
                   sa_email, calls, idx, state_check, proc, records, exit_code>>
    /\ IF ~inp.skip_impersonation
       THEN /\ pc' = "b_stage"
            /\ UNCHANGED <<env, osenv, ret, why>>
       ELSE PostBootstrap(NoneVal)

\* run_terraform, lines 187-193: _run_bootstrap_folder has returned
RT_AfterBootstrap ==
    /\ UNCHANGED <<stage, reader, icmd, lib>>
    /\ pc = "b_ret"
    /\ inp.cli \in {"apply", "plan"}
    /\ UNCHANGED <<inp, tfvars, stateFiles, runs, impersonated, vars_to_inject, gen_vars, schema,
                   sa_email, calls, idx, state_check, proc, records, exit_code>>
    /\ IF BootstrapFailed(sa_email)
       THEN /\ ret' = 1
            /\ pc' = "rt_ret"
            /\ why' = "bootstrap_failed"
            /\ UNCHANGED <<env, osenv>>
       ELSE PostBootstrap(sa_email)

----------------------------------------------------------------------------
(* _run_bootstrap_folder: commands/core.py lines 37-91 *)

\* line 45: stager.stage_phase("0-bootstrap")
BootStage ==
    /\ UNCHANGED <<stage, reader, icmd, lib>>
    /\ pc = "b_stage"
    /\ UNCHANGED <<inp, persisted, locals>>
    /\ \E rc \in {0, 1} :
         /\ Log(<<CallRc("stage", BOOT, "", osenv, rc)>>)
         /\ IF rc = 0 THEN pc' = "b_init" /\ UNCHANGED <<exit_code, why>>
            ELSE Raise("stage_failed")

\* line 50: terraform init, check=True
BootInit ==
    /\ UNCHANGED <<stage, reader, icmd, lib>>
    /\ pc = "b_init"
    /\ UNCHANGED <<inp, persisted, locals>>
    /\ \E rc \in {0, 1} :
         /\ Log(<<CallRc("init", BOOT, "", osenv, rc)>>)
         /\ IF rc = 0 THEN pc' = "b_user" /\ UNCHANGED <<exit_code, why>>
            ELSE Raise("init_failed")

\* lines 63-65 and 93-106: _get_current_user_email
BootUserEmail ==
    /\ UNCHANGED <<stage, reader, icmd, lib>>
    /\ pc = "b_user"
    /\ UNCHANGED <<inp, persisted, locals, exit_code, why>>
    /\ \E email \in {NoneVal, "user@example.com"} :
         Log(<<Call("gcloud_account", NODIR, email, osenv, {}, <<>>)>>)
    /\ pc' = "b_apis"

\* variant: the pause is taken whatever the enable command returned
SettleDelay_always(rc) == <<Call("sleep", NODIR, "", osenv, {}, <<>>)>>

\* lines 129-137: time.sleep(15) only in the else branch of returncode != 0
SettleDelay(rc) == IF rc = 0 THEN <<Call("sleep", NODIR, "", osenv, {}, <<>>)>> ELSE <<>>

\* line 72 and 108-137: _ensure_meta_apis
BootEnsureApis ==
    /\ UNCHANGED <<stage, reader, icmd, lib>>
    /\ pc = "b_apis"
    /\ UNCHANGED <<inp, persisted, locals, exit_code, why>>
    /\ \E rc \in {0, 1} :
         Log(<<CallRc("gcloud_enable", NODIR, "", osenv, rc)>> \o SettleDelay(rc))
    /\ pc' = "b_apply"

\* what `terraform apply` prints at the end: something was added, changed or
\* destroyed, or nothing was; line 75 does not capture it
Summary(changed) == IF changed THEN {"changed"} ELSE {}

\* lines 74-79: the bootstrap apply under the operator's credentials
BootApply ==
    LET BootArgs(i, user_email) ==
            << "-auto-approve",
               IF i.deletes_allowed THEN "-var=allow_deletes=true" ELSE "-var=allow_deletes=false",
               IF i.fake_secret THEN "-var=fake_secret=true" ELSE "-var=fake_secret=false" >>
            \o (IF Truthy(user_email) THEN <<"-var=current_user_email">> ELSE <<>>)
    IN
    /\ UNCHANGED <<stage, reader, icmd, lib>>
    /\ pc = "b_apply"
    /\ UNCHANGED <<inp, persisted, vars_to_inject, gen_vars, schema, env, idx, state_check, proc,
                   records, ret, exit_code, why>>
    /\ LET user_email == calls[CHOOSE k \in DOMAIN calls :
                                  /\ calls[k].op = "gcloud_account"
                                  /\ \A j \in DOMAIN calls :
                                        calls[j].op = "gcloud_account" => j <= k].arg
       IN \E rc \in {0} \cup ExitCodes, changed \in BOOLEAN :
            /\ rc # 0 => ~changed
            /\ Log(<<[Call("apply", BOOT, "", BootEnv, Summary(changed),
                            BootArgs(inp, user_email))
                        EXCEPT !.rc = rc]>>)
            /\ IF rc # 0
               THEN sa_email' = NoneVal /\ pc' = "b_ret"
               ELSE UNCHANGED sa_email /\ pc' = "b_output"

\* lines 82-91: read back the service account email
BootOutput ==
    /\ UNCHANGED <<stage, reader, icmd, lib>>
    /\ pc = "b_output"
    /\ UNCHANGED <<inp, persisted, vars_to_inject, gen_vars, schema, env, idx, state_check, proc,
                   records, ret, exit_code, why>>
    /\ \E rc \in {0, 1}, stdout \in {"", SA} :
         /\ Log(<<CallRc("output", BOOT, "", osenv, rc)>>)
         /\ sa_email' = IF rc # 0 THEN NoneVal ELSE stdout
    /\ pc' = "b_ret"

----------------------------------------------------------------------------
(* run_terraform, main phase: commands/core.py lines 215-232 *)

\* variant: the service account is polled once before 1-main is staged
HandoffCalls_poll == <<Call("verify_handoff", NODIR, "", osenv, {}, <<>>)>>

\* run_terraform lines 191-215: the calls made between the return of
\* _run_bootstrap_folder and stage_phase("1-main"): none
HandoffCalls == <<>>

\* lines 216-220: stage 1-main and inject the variables
MainStage ==
    /\ UNCHANGED <<stage, reader, icmd, lib>>
    /\ pc = "m_stage"
    /\ inp.cli \in {"apply", "plan"}
    /\ UNCHANGED <<inp, persisted, vars_to_inject, schema, sa_email, env, idx, state_check, proc,
                   records, ret>>
    /\ \E rc \in {0, 1} :
         IF rc = 0
         THEN /\ Log(HandoffCalls
                     \o <<Call("stage", MAIN, "", osenv, {}, <<>>)>>
                     \o (IF ~NoVars(vars_to_inject)
                         THEN <<Call("inject_vars", MAIN, "", osenv, {}, <<>>)>>
                         ELSE <<>>))
              /\ gen_vars' = vars_to_inject
              /\ pc' = "m_init"
              /\ UNCHANGED <<exit_code, why>>
         ELSE /\ Log(HandoffCalls \o <<CallRc("stage", MAIN, "", osenv, rc)>>)
              /\ gen_vars' = EmptyVars
              /\ Raise("stage_failed")

\* line 223: terraform init, check=True
MainInit ==
    /\ UNCHANGED <<stage, reader, icmd, lib>>
    /\ pc = "m_init"
    /\ inp.cli \in {"apply", "plan"}
    /\ UNCHANGED <<inp, persisted, vars_to_inject, gen_vars, schema, sa_email, env, state_check, proc,
                   records, ret>>
    /\ \E rc \in {0, 1} :
         /\ Log(<<CallRc("init", MAIN, "", env, rc)>>)
         /\ IF rc = 0 THEN pc' = "a_check" /\ idx' = 1 /\ UNCHANGED <<exit_code, why>>
            ELSE Raise("init_failed") /\ UNCHANGED idx

----------------------------------------------------------------------------
(* Adoption: _adopt_main_resources (core.py 15-35) and the try_import helper *)
(* of the import command (import.py 232-283)                                 *)

\* variant: the environment is imported before the network and the instance
ImportCandidates_reordered == <<ORG, ENVR, NET, INST, EGRP>>

\* import.py lines 266-283: the candidates of the import command, in call order
ImportCandidates == <<ORG, NET, INST, ENVR, EGRP>>

Candidates ==
    LET AdoptCandidates == <<ORG, NET>>
    IN
    IF inp.cli = "import" THEN ImportCandidates ELSE AdoptCandidates

\* `sig in proc.stderr`
HasText(stderr, sig) ==
    LET LineHas(line) ==
            \/ sig = "Cannot import non-existent"
                 /\ line = "Error: Cannot import non-existent remote object"
            \/ sig = "404" /\ line = "Error: googleapi: Error 404: not found"
            \/ sig = "already managed" /\ line = "Error: Resource already managed by Terraform"
    IN
    \E k \in DOMAIN stderr : LineHas(stderr[k])

\* variant: the state check never short-circuits
InState_never(addr, stdout) == FALSE

\* try_import: `if resource_addr in state_check.stdout: return`
InState(addr, stdout) == addr \in stdout

\* import.py lines 248-256: what try_import prints for an attempted import;
\* "IndexError" when proc.stderr.splitlines()[0] is evaluated on an empty list
classify(res) ==
    IF res.rc = 0 THEN "Imported"
    ELSE IF HasText(res.stderr, "Cannot import non-existent") \/ HasText(res.stderr, "404")
    THEN "NotFoundRemotely"
    ELSE IF Len(res.stderr) = 0 THEN "IndexError"
    ELSE "Failed"

NextCandidate ==
    LET AfterAdoption == IF inp.cli = "import" THEN "imp_finish" ELSE "m_exec"
    IN
    /\ idx' = idx + 1
    /\ pc' = IF idx + 1 > Len(Candidates) THEN AfterAdoption ELSE "a_check"

\* try_import, step 1: terraform state list <addr>
AdoptStateList ==
    LET StateList(st, addr) == IF st.exists /\ addr \in st.managed THEN {addr} ELSE {}
    IN
    /\ UNCHANGED <<stage, reader, icmd, lib>>
    /\ pc = "a_check"
    /\ UNCHANGED <<inp, persisted, vars_to_inject, gen_vars, schema, sa_email, env, proc,
                   ret, exit_code, why>>
    /\ LET addr == Candidates[idx]
           out == StateList(stateFiles[BackendKey], addr)
       IN /\ Log(<<Call("state_list", MAIN, addr, env, out, <<>>)>>)
          /\ state_check' = out
          /\ IF InState(addr, out)
             THEN /\ NextCandidate
                  /\ records' = IF inp.cli = "import"
                                THEN Append(records, [addr |-> addr, outcome |-> "AlreadyManaged"])
                                ELSE records
             ELSE /\ pc' = "a_import"
                  /\ UNCHANGED <<idx, records>>

\* try_import, step 2: terraform import <addr> <id>
AdoptImport ==
    LET ImportInto(st, addr) ==
            [exists |-> TRUE,
             managed |-> st.managed \cup {addr},
             orgVals |-> IF addr = ORG THEN StdOrg ELSE st.orgVals,
             location |-> st.location]
    IN
    LET ImportResults ==
            LET StderrChoices ==
                    { <<>>,
                      <<"Error: Cannot import non-existent remote object">>,
                      <<"Error: googleapi: Error 404: not found">>,
                      <<"Error: Resource already managed by Terraform">>,
                      <<"Error: permission denied">> }
            IN
            { [rc |-> 0, stderr |-> <<>>] } \cup { [rc |-> 1, stderr |-> e] : e \in StderrChoices }
    IN
    /\ UNCHANGED <<stage, reader, icmd, lib>>
    /\ pc = "a_import"
    /\ UNCHANGED <<inp, tfvars, osenv, runs, impersonated, vars_to_inject, gen_vars, schema, sa_email, env,
                   state_check, records, ret, exit_code, why>>
    /\ \E res \in ImportResults :
         LET addr == Candidates[idx] IN
         /\ Log(<<CallRc("import", MAIN, addr, env, res.rc)>>)
         /\ stateFiles' = IF res.rc = 0
                          THEN [stateFiles EXCEPT ![BackendKey] = ImportInto(@, addr)]
                          ELSE stateFiles
         /\ IF inp.cli = "import"
            THEN /\ proc' = res
                 /\ pc' = "a_classify"
                 /\ UNCHANGED idx
            ELSE \* core.py lines 29-32: the result is dropped
                 /\ NextCandidate
                 /\ UNCHANGED proc

\* import.py lines 248-256: try_import reports the result and returns
AdoptClassify ==
    /\ UNCHANGED <<stage, reader, icmd, lib>>
    /\ pc = "a_classify"
    /\ UNCHANGED <<inp, persisted, vars_to_inject, gen_vars, schema, sa_email, env,
                   state_check, ret, calls>>
    /\ proc' = NoProc
    /\ IF classify(proc) = "IndexError"
       THEN /\ Raise("adoption_exception")
            /\ UNCHANGED <<idx, records>>
       ELSE /\ records' = Append(records, [addr |-> Candidates[idx], outcome |-> classify(proc)])
            /\ NextCandidate
            /\ UNCHANGED <<exit_code, why>>

----------------------------------------------------------------------------
(* run_terraform lines 228-232 and the exit of apply / plan *)

\* lines 229-232: the final plan / apply command
MainExec ==
    LET ApplyInto(st, gv) ==
            [exists |-> TRUE,
             managed |-> Addr,
             orgVals |-> IF ORG \in st.managed \/ "consumer_data_region" \notin DOMAIN gv
                         THEN st.orgVals
                         ELSE [billing_type |-> gv["apigee_billing_type"],
                               analytics_region |-> gv["apigee_analytics_region"],
                               api_consumer_data_location |->
                                   IF gv["consumer_data_region"] = "" THEN NoneVal
                                   ELSE gv["consumer_data_region"]],
             location |-> IF INST \in st.managed \/ "apigee_runtime_location" \notin DOMAIN gv
                          THEN st.location
                          ELSE gv["apigee_runtime_location"]]
    IN
    LET MainArgs(command, i) ==
            (IF command = "apply" /\ i.auto_approve THEN <<"-auto-approve">> ELSE <<>>)
            \o << IF i.fake_secret THEN "-var=fake_secret=true" ELSE "-var=fake_secret=false",
                  IF i.deletes_allowed THEN "-var=allow_deletes=true" ELSE "-var=allow_deletes=false" >>
    IN
    /\ UNCHANGED <<stage, reader, icmd, lib>>
    /\ pc = "m_exec"
    /\ UNCHANGED <<inp, tfvars, osenv, runs, impersonated, vars_to_inject, gen_vars, schema, sa_email, env, idx,
                   state_check, proc, records, exit_code>>
    /\ \E rc \in {0} \cup ExitCodes :
         /\ Log(<<[Call(inp.cli, MAIN, "", env, {}, MainArgs(inp.cli, inp)) EXCEPT !.rc = rc]>>)
         /\ ret' = rc
         /\ stateFiles' = IF rc = 0 /\ inp.cli = "apply"
                          THEN [stateFiles EXCEPT ![BackendKey] = ApplyInto(@, gen_vars)]
                          ELSE stateFiles
    /\ why' = "main"
    /\ pc' = "rt_ret"

\* apply, lines 318-325
ApplyFinish ==
    /\ UNCHANGED <<stage, reader, icmd, lib>>
    /\ pc = "rt_ret"
    /\ inp.cli = "apply"
    /\ UNCHANGED <<inp, persisted, locals, calls, why>>
    /\ exit_code' = IF ret # 0 THEN ExitInsideTry(ret) ELSE 0
    /\ pc' = "done"

\* plan, lines 245-249
PlanFinish ==
    /\ UNCHANGED <<stage, reader, icmd, lib>>
    /\ pc = "rt_ret"
    /\ inp.cli = "plan"
    /\ UNCHANGED <<inp, persisted, locals, calls, why>>
    /\ exit_code' = IF ret # 0 THEN ExitInsideTry(ret) ELSE 0
    /\ pc' = "done"

----------------------------------------------------------------------------
(* The import command: commands/import.py *)

\* lines 99-104: control plane inferred from the consumer data location
ImportInferCp(consumer_loc) ==
    IF ~Truthy(consumer_loc) THEN NoneVal
    ELSE IF HasSub(consumer_loc, "northamerica") THEN "ca"
    ELSE IF HasSub(consumer_loc, "europe") THEN "eu"
    ELSE IF HasSub(consumer_loc, "australia") THEN "au"
    ELSE "us"

\* lines 134-141: the schema built from the discovered organization
DiscoveredSchema(consumer_loc, instance_loc) ==
    [found |-> TRUE, unknown |-> FALSE, billing_type |-> "PAYG",
     drz |-> Truthy(consumer_loc),
     analytics_region |-> IF Truthy(consumer_loc) THEN NoneVal ELSE "us-central1",
     runtime_location |-> instance_loc,
     control_plane_location |-> ImportInferCp(consumer_loc),
     consumer_data_region |-> consumer_loc]

\* lines 28-34: refuse to overwrite an existing terraform.tfvars
ImpCheck ==
    /\ UNCHANGED <<stage, reader, icmd, lib>>
    /\ pc = "start"
    /\ inp.cli = "import"
    /\ UNCHANGED <<inp, persisted, locals, calls>>
    /\ IF tfvars.exists /\ ~inp.force
       THEN /\ pc' = "done"
            /\ exit_code' = 1
            /\ why' = "already_exists"
       ELSE /\ pc' = "imp_resolve"
            /\ UNCHANGED <<exit_code, why>>

\* lines 36-141: the schema comes from the template or from discovery
ImpResolve ==
    LET DiscoveryChoices == {NoneVal, "australia-southeast1"}
    IN
    /\ UNCHANGED <<stage, reader, icmd, lib>>
    /\ pc = "imp_resolve"
    /\ UNCHANGED <<inp, persisted, vars_to_inject, gen_vars, sa_email, env, idx,
                   state_check, proc, records, ret, calls>>
    /\ IF inp.template # NoTemplate
       THEN IF from_json_file_ok(inp.template)
            THEN /\ schema' = TemplateFile(inp.template)
                 /\ pc' = "imp_write"
                 /\ UNCHANGED <<exit_code, why>>
            ELSE /\ Raise("template_error")
                 /\ UNCHANGED schema
       ELSE \E status \in {200, 404, 500}, found \in BOOLEAN, loc \in DiscoveryChoices :
            IF (status = 404 /\ ~found) \/ status = 500
            THEN /\ pc' = "done"
                 /\ exit_code' = 1
                 /\ why' = "org_not_found"
                 /\ UNCHANGED schema
            ELSE /\ schema' = DiscoveredSchema(loc, "us-central1")
                 /\ pc' = "imp_write"
                 /\ UNCHANGED <<exit_code, why>>

\* lines 143-151: write terraform.tfvars
ImpWriteConfig ==
    /\ UNCHANGED <<stage, reader, icmd, lib>>
    /\ pc = "imp_write"
    /\ UNCHANGED <<inp, stateFiles, osenv, runs, impersonated, locals, calls, exit_code, why>>
    /\ tfvars' = [exists |-> TRUE, state_suffix |-> "", generated |-> TRUE]
    /\ pc' = "imp_boot"

\* lines 154-224: stage and init 0-bootstrap, adopt the identity resources
ImpBootPrep ==
    /\ UNCHANGED <<stage, reader, icmd, lib>>
    /\ pc = "imp_boot"
    /\ UNCHANGED <<inp, persisted, vars_to_inject, gen_vars, schema, sa_email, idx,
                   state_check, proc, records, ret>>
    /\ env' = BootEnv
    /\ \E ok \in BOOLEAN, rc \in {0, 1}, group \in BOOLEAN :
         IF ~ok
         THEN /\ Log(<<CallRc("stage", BOOT, "", osenv, 1)>>)
              /\ Raise("stage_failed")
         ELSE IF rc # 0
         THEN /\ Log(<<Call("stage", BOOT, "", osenv, {}, <<>>),
                       CallRc("init", BOOT, "", BootEnv, rc)>>)
              /\ Raise("init_failed")
         ELSE /\ Log(<<Call("stage", BOOT, "", osenv, {}, <<>>),
                       Call("init", BOOT, "", BootEnv, {}, <<>>),
                       Call("import", BOOT, "google_service_account.deployer", BootEnv, {}, <<>>),
                       Call("import", BOOT, "google_iam_deny_policy.protect_deletes[0]",
                            BootEnv, {}, <<>>)>>
                     \o (IF group
                         THEN <<Call("import", BOOT, "google_cloud_identity_group.apigee_admins",
                                     BootEnv, {}, <<>>)>>
                         ELSE <<>>))
              /\ pc' = "b_stage"
              /\ UNCHANGED <<exit_code, why>>

\* lines 227-229: _run_bootstrap_folder has returned
ImpAfterBootstrap ==
    /\ UNCHANGED <<stage, reader, icmd, lib>>
    /\ pc = "b_ret"
    /\ inp.cli = "import"
    /\ UNCHANGED <<inp, persisted, locals, calls>>
    /\ IF ~Truthy(sa_email)
       THEN /\ pc' = "done"
            /\ exit_code' = ExitInsideTry(1)
            /\ why' = "bootstrap_failed"
       ELSE /\ pc' = "m_stage"
            /\ UNCHANGED <<exit_code, why>>

\* lines 258-264: stage and init 1-main under the service identity
ImpMainStage ==
    /\ UNCHANGED <<stage, reader, icmd, lib>>
    /\ pc = "m_stage"
    /\ inp.cli = "import"
    /\ UNCHANGED <<inp, persisted, vars_to_inject, schema, sa_email, state_check, proc, records, ret>>
    /\ gen_vars' = EmptyVars
    /\ \E ok \in BOOLEAN, rc \in {0, 1} :
         IF ~ok
         THEN /\ Log(<<CallRc("stage", MAIN, "", osenv, 1)>>)
              /\ Raise("stage_failed")
              /\ UNCHANGED <<env, idx>>
         ELSE /\ env' = [env EXCEPT !.imp = sa_email]
              /\ Log(<<Call("stage", MAIN, "", osenv, {}, <<>>),
                       CallRc("init", MAIN, "", [env EXCEPT !.imp = sa_email], rc)>>)
              /\ IF rc # 0
                 THEN Raise("init_failed") /\ UNCHANGED idx
                 ELSE pc' = "a_check" /\ idx' = 1 /\ UNCHANGED <<exit_code, why>>

\* lines 285-286: the command completes
ImpFinish ==
    /\ UNCHANGED <<stage, reader, icmd, lib>>
    /\ pc = "imp_finish"
    /\ UNCHANGED <<inp, persisted, locals, calls>>
    /\ exit_code' = 0
    /\ why' = "imported"
    /\ pc' = "done"

----------------------------------------------------------------------------
(* A further invocation in the same working directory *)

\* the process ends: nothing but the files survives it
ProcessExit ==
    /\ UNCHANGED <<stage, reader, icmd, lib>>
    /\ pc = "done"
    /\ pc' = "idle"
    /\ vars_to_inject' = FreshLocals.vars_to_inject
    /\ gen_vars' = FreshLocals.gen_vars
    /\ schema' = FreshLocals.schema
    /\ sa_email' = FreshLocals.sa_email
    /\ env' = FreshLocals.env
    /\ calls' = FreshLocals.calls
    /\ idx' = FreshLocals.idx
    /\ state_check' = FreshLocals.state_check
    /\ proc' = FreshLocals.proc
    /\ records' = FreshLocals.records
    /\ ret' = FreshLocals.ret
    /\ exit_code' = FreshLocals.exit_code
    /\ why' = FreshLocals.why
    /\ impersonated' = (impersonated \/ \E i \in DOMAIN calls :
                                            calls[i].dir = MAIN /\ calls[i].env.imp # EnvUnset)
    /\ UNCHANGED <<inp, tfvars, stateFiles, osenv, runs>>

\* the command lines of the repeated-invocation specification
RepeatInputs ==
    { Cmd("apply", t, s, FALSE, NoFlags, FALSE) : t \in {NoTemplate, "t_central"}, s \in BOOLEAN }
    \cup { Cmd("import", "t_east", FALSE, FALSE, NoFlags, TRUE) }
    \cup PlanInputs

\* the operator runs the next command
NextRun ==
    /\ UNCHANGED <<stage, reader, icmd, lib>>
    /\ pc = "idle"
    /\ runs < MaxRuns
    /\ runs' = runs + 1
    /\ inp' \in RepeatInputs
    /\ pc' = "start"
    /\ UNCHANGED <<tfvars, stateFiles, osenv, impersonated, locals, calls, exit_code, why>>

Next ==
    \/ ApplyResolve
    \/ PlanStart
    \/ RT_Start
    \/ RT_AfterBootstrap
    \/ BootStage
    \/ BootInit
    \/ BootUserEmail
    \/ BootEnsureApis
    \/ BootApply
    \/ BootOutput
    \/ MainStage
    \/ MainInit
    \/ AdoptStateList
    \/ AdoptImport
    \/ AdoptClassify
    \/ MainExec
    \/ ApplyFinish
    \/ PlanFinish
    \/ ImpCheck
    \/ ImpResolve
    \/ ImpWriteConfig
    \/ ImpBootPrep
    \/ ImpAfterBootstrap
    \/ ImpMainStage
    \/ ImpFinish
    \/ ProcessExit

Spec == Init /\ [][Next]_vars

(* Repeated invocations in one working directory: the persisted state of one *)
(* invocation is the prior state of the next.                                *)

InitRepeat ==
    /\ Init
    /\ inp \in RepeatInputs
    /\ tfvars.exists
    /\ stateFiles[""] \in {NoState, FullState}
    /\ stateFiles["dev"] = NoState

NextRepeat == Next \/ NextRun

SpecRepeat == InitRepeat /\ [][NextRepeat]_vars

----------------------------------------------------------------------------
(* TerraformStager.stage_phase: engine.py lines 78-108 and 180-259 *)

MaxStagings == 2

Invocations == {1, 2}

\* a file name below a directory: <dir>/<prefix><base><ext>
File(dir, prefix, base, ext) == [dir |-> dir, prefix |-> prefix, base |-> base, ext |-> ext]

BACKEND_TF == File("", "", "backend", ".tf")
GEN_TFVARS == File("", "_apim_", "gen", ".auto.tfvars.json")
DOT_TERRAFORM == File(".terraform", "", "terraform", ".tfstate")

TFVARS == File("", "", "terraform", ".tfvars")
AUTO_JSON == File("", "", "prod", ".auto.tfvars.json")
APIGEE_TFVARS == File("", "", "apigee", ".tfvars")
USER_TF == File("", "", "extra", ".tf")
RESERVED_TF == File("", "_apim_", "extra", ".tf")
README == File("", "", "README", ".md")
NESTED_TF == File("templates", "", "nested", ".tf")

\* what a project root may hold
RootChoices ==
    { {TFVARS},
      {TFVARS, File("", "", "prod", ".auto.tfvars"), AUTO_JSON},
      {TFVARS, USER_TF, RESERVED_TF, APIGEE_TFVARS, README, NESTED_TF},
      {TFVARS, USER_TF, BACKEND_TF},
      {TFVARS, AUTO_JSON, USER_TF, RESERVED_TF, APIGEE_TFVARS, README, BACKEND_TF} }

\* contents of a staged file: where it came from and, for a backend, its path
Content(origin, path) == [origin |-> origin, path |-> path]

EmptyDir == [n \in {} |-> Content("", <<>>)]

\* copying or writing `files` into directory d, replacing files of the same name
Overlay(d, files) ==
    [n \in DOMAIN d \cup DOMAIN files |-> IF n \in DOMAIN files THEN files[n] ELSE d[n]]

\* paths.py get_state_path: <data_root>/<project_id>[/<suffix>]/tf/<phase>/terraform.tfstate
StatePath(project_id, phase, suffix) ==
    <<"data_root", project_id>>
    \o (IF Truthy(suffix) THEN <<suffix>> ELSE <<>>)
    \o <<"tf", phase, "terraform.tfstate">>

\* engine.py lines 21-23 and 83: <cache_dir>/<project_id>[/<suffix>]/tf/<phase>;
\* get_cache_dir() and get_data_dir() follow XDG_CACHE_HOME and
\* APIGEE_TF_DATA_DIR and may name the same directory
phase_staging(cache, phase_name, suffix) ==
    <<cache, PROJECT>>
    \o (IF Truthy(suffix) THEN <<suffix>> ELSE <<>>)
    \o <<"tf", phase_name>>

\* variant: the wipe keeps what is there
wipe_dir_keep(d) == d

\* _wipe_dir: rmtree and mkdir
wipe_dir(d) == EmptyDir

\* _copy_phase_tf: copytree(<package>/tf/<phase>, target, dirs_exist_ok=True)
copy_phase_tf(d, phase_name) ==
    LET PackageTf == { File("", "", "main", ".tf"), File("", "", "variables", ".tf") }
    IN  Overlay(d, [n \in PackageTf |-> Content("package", <<phase_name>>)])

\* _copy_shared_modules: rmtree(target/modules), copytree(<package>/modules)
copy_shared_modules(d) ==
    LET PackageModules == { File("modules", "", "apigee", ".tf") }
    IN  Overlay([n \in {m \in DOMAIN d : m.dir # "modules"} |-> d[n]],
                [n \in PackageModules |-> Content("module", <<>>)])

\* _generate_backend: backend.tf pointing at get_state_path(project, phase, suffix)
generate_backend(d, phase_name, suffix) ==
    Overlay(d, [n \in {BACKEND_TF} |->
                   Content("backend", StatePath(PROJECT, phase_name, suffix))])

\* project_root.glob(pattern), for the patterns of _copy_user_files: not recursive
glob(root, pattern) ==
    LET fnmatch(n) ==
            CASE pattern = "terraform.tfvars" ->
                    n.prefix = "" /\ n.base = "terraform" /\ n.ext = ".tfvars"
              [] pattern = "*.auto.tfvars" -> n.ext = ".auto.tfvars"
              [] pattern = "*.auto.tfvars.json" -> n.ext = ".auto.tfvars.json"
              [] pattern = "*.tf" -> n.ext = ".tf"
              [] OTHER -> FALSE
    IN  { n \in root : n.dir = "" /\ fnmatch(n) }

\* variant: no name is reserved
startswith_reserved_never(n) == FALSE

\* _copy_user_files line 257: any(source_file.name.startswith(p) for p in reserved_prefixes)
startswith_reserved(n) == n.prefix = "_apim_"

\* _copy_user_files: copy2 of each selected file of the project root into the
\* target; *.tf only for 1-main and only when the name is not reserved
copy_user_files(d, phase_name, root) ==
    LET allowed_vars == {"terraform.tfvars", "*.auto.tfvars", "*.auto.tfvars.json"}
        selected == UNION { glob(root, pattern) : pattern \in allowed_vars }
                    \cup (IF phase_name = MAIN
                          THEN { n \in glob(root, "*.tf") : ~startswith_reserved(n) }
                          ELSE {})
    IN  Overlay(d, [n \in selected |-> Content("user", <<>>)])

\* the staging steps leave everything but the staging directories alone
StageFrame == UNCHANGED <<main, reader, icmd, lib, root_files, cache_dir, tfstates>>

At(p, pos) == stager[p].pos = pos

Goto(p, pos) == stager' = [stager EXCEPT ![p].pos = pos]

\* stage_phase lines 83-87: an invocation starts staging a phase
StageBegin ==
    \E p \in Invocations, phase_name \in {BOOT, MAIN} :
        /\ At(p, "idle")
        /\ stager[p].n < MaxStagings
        /\ stager' = [stager EXCEPT ![p] = [@ EXCEPT !.pos = "wipe", !.phase = phase_name,
                                                     !.n = @ + 1]]
        /\ UNCHANGED staging
        /\ StageFrame

\* line 90: self._wipe_dir(phase_staging); shutil.rmtree takes every file below
\* the directory, whoever wrote it
StageWipe ==
    \E p \in Invocations :
        LET target_dir == phase_staging(cache_dir, stager[p].phase, ConfigSuffix)
            below(f) == Len(f) > Len(target_dir) /\ SubSeq(f, 1, Len(target_dir)) = target_dir
        IN  /\ At(p, "wipe")
            /\ staging' = [staging EXCEPT ![stager[p].phase] = wipe_dir(@)]
            /\ tfstates' = { f \in tfstates : ~below(f) }
            /\ Goto(p, "copy_tf")
            /\ UNCHANGED <<main, reader, icmd, lib, root_files, cache_dir>>

\* line 93: self._copy_phase_tf(phase_name, phase_staging)
StageCopyTf ==
    \E p \in Invocations :
        /\ At(p, "copy_tf")
        /\ staging' = [staging EXCEPT ![stager[p].phase] = copy_phase_tf(@, stager[p].phase)]
        /\ Goto(p, "copy_modules")
        /\ StageFrame

\* line 96: self._copy_shared_modules(phase_staging)
StageCopyModules ==
    \E p \in Invocations :
        /\ At(p, "copy_modules")
        /\ staging' = [staging EXCEPT ![stager[p].phase] = copy_shared_modules(@)]
        /\ Goto(p, "backend")
        /\ StageFrame

\* line 99: self._generate_backend(phase_name, phase_staging)
StageBackend ==
    \E p \in Invocations :
        /\ At(p, "backend")
        /\ staging' = [staging EXCEPT ![stager[p].phase] =
                          generate_backend(@, stager[p].phase, ConfigSuffix)]
        /\ Goto(p, "user_files")
        /\ StageFrame

\* line 102: self._copy_user_files(phase_staging); stage_phase returns
StageUserFiles ==
    \E p \in Invocations :
        /\ At(p, "user_files")
        /\ staging' = [staging EXCEPT ![stager[p].phase] =
                          copy_user_files(@, stager[p].phase, root_files)]
        /\ Goto(p, "staged")
        /\ StageFrame

\* the process is killed inside stage_phase
StageKilled ==
    \E p \in Invocations :
        /\ stager[p].pos \in {"wipe", "copy_tf", "copy_modules", "backend", "user_files"}
        /\ stager' = [stager EXCEPT ![p] = [@ EXCEPT !.pos = "idle", !.kills = @ + 1]]
        /\ UNCHANGED staging
        /\ StageFrame

\* the caller works in the staged directory: inject_vars (1-main) and terraform init
StageRun ==
    \E p \in Invocations, inject \in BOOLEAN :
        /\ At(p, "staged")
        /\ staging' = [staging EXCEPT ![stager[p].phase] =
              Overlay(@, [n \in {DOT_TERRAFORM}
                               \cup (IF inject /\ stager[p].phase = MAIN
                                     THEN {GEN_TFVARS} ELSE {}) |->
                             IF n = DOT_TERRAFORM THEN Content("init", <<>>)
                             ELSE Content("generated", <<>>)])]
        /\ Goto(p, "running")
        /\ StageFrame

\* the caller's last command in the directory has ended
StageDone ==
    \E p \in Invocations :
        /\ At(p, "running")
        /\ Goto(p, "idle")
        /\ UNCHANGED staging
        /\ StageFrame

\* the main machine at rest, with a loaded configuration
MainOff ==
    /\ pc = "off"
    /\ inp = Cmd("apply", NoTemplate, FALSE, FALSE, NoFlags, FALSE)
    /\ tfvars \in { t \in TfvarsChoices : t.exists }
    /\ stateFiles = [x \in Suffixes |-> NoState]
    /\ osenv = [imp |-> EnvUnset, quota |-> EnvUnset]
    /\ runs = 1
    /\ impersonated = FALSE
    /\ vars_to_inject = FreshLocals.vars_to_inject
    /\ gen_vars = FreshLocals.gen_vars
    /\ sa_email = FreshLocals.sa_email
    /\ schema = FreshLocals.schema
    /\ env = FreshLocals.env
    /\ calls = FreshLocals.calls
    /\ idx = FreshLocals.idx
    /\ state_check = FreshLocals.state_check
    /\ proc = FreshLocals.proc
    /\ records = FreshLocals.records
    /\ ret = FreshLocals.ret
    /\ exit_code = FreshLocals.exit_code
    /\ why = FreshLocals.why

\* one invocation at a time stages and runs; an earlier run may have left files
InitStage ==
    /\ LibOff
    /\ MainOff
    /\ ReaderOff
    /\ IcmdOff
    /\ root_files \in RootChoices
    /\ cache_dir \in {"cache_root", "data_root"}
    /\ tfstates \in SUBSET { StatePath(PROJECT, BOOT, ConfigSuffix),
                             StatePath(PROJECT, MAIN, ConfigSuffix),
                             StatePath("other", MAIN, ConfigSuffix) }
    /\ staging \in [{BOOT, MAIN} ->
          { EmptyDir,
            [n \in {File("", "", "old", ".tf"), BACKEND_TF, GEN_TFVARS, DOT_TERRAFORM,
                    File("modules", "", "old", ".tf")} |->
                IF n = BACKEND_TF THEN Content("backend", StatePath("other", MAIN, NoneVal))
                ELSE Content("stale", <<>>)],
            [n \in {File("", "", "main", ".tf"), RESERVED_TF, README} |->
                Content("stale", <<>>)] }]
    /\ stager = [p \in Invocations |->
                    [pos |-> IF p = 1 THEN "idle" ELSE "off", phase |-> BOOT, n |-> 0,
                     kills |-> 0]]

NextStage ==
    \/ StageBegin
    \/ StageWipe
    \/ StageCopyTf
    \/ StageCopyModules
    \/ StageBackend
    \/ StageUserFiles
    \/ StageKilled
    \/ StageRun
    \/ StageDone

SpecStage == InitStage /\ [][NextStage]_vars

\* two invocations of the same project and suffix run at the same time
InitConc ==
    /\ LibOff
    /\ MainOff
    /\ tfvars.state_suffix = "dev"
    /\ ReaderOff
    /\ IcmdOff
    /\ root_files \in { r \in RootChoices : BACKEND_TF \notin r }
    /\ cache_dir = "cache_root"
    /\ tfstates = { StatePath(PROJECT, MAIN, ConfigSuffix) }
    /\ staging = [ph \in {BOOT, MAIN} |-> EmptyDir]
    /\ stager = [p \in Invocations |-> [pos |-> "idle", phase |-> BOOT, n |-> 0, kills |-> 0]]

SpecConc == InitConc /\ [][NextStage]_vars

----------------------------------------------------------------------------
(* The state readers: cloud/terraform.py get_status, mappers.py             *)
(* map_state_to_status and engine.py extract_vars_from_state                *)

\* mappers.py map_state_to_status; `none` of the result stands for None
map_state_to_status(f) ==
    IF f.json = "empty_object"
    THEN [read |-> TRUE, none |-> FALSE, project_id |-> "UNKNOWN", runtime_location |-> "-",
          environments |-> <<>>, instances |-> <<>>, control_plane_location |-> NoneVal]
    ELSE LET tf_consumer_loc == IF f.org THEN f.consumer ELSE NoneVal
             is_drz == Truthy(tf_consumer_loc)
         IN
         [read |-> TRUE, none |-> FALSE,
          project_id |-> IF f.org THEN PROJECT ELSE "UNKNOWN",
          runtime_location |-> IF Len(f.instances) > 0 THEN f.instances[1] ELSE "-",
          environments |-> f.environments,
          instances |-> f.instances,
          control_plane_location |->
              IF ~is_drz THEN NoneVal
              ELSE IF HasSub(tf_consumer_loc, "northamerica") THEN "ca"
              ELSE IF HasSub(tf_consumer_loc, "europe") THEN "eu"
              ELSE IF HasSub(tf_consumer_loc, "australia") THEN "au"
              ELSE IF HasSub(tf_consumer_loc, "asia") THEN "ap"
              ELSE IF HasSub(tf_consumer_loc, "southamerica") THEN "sa"
              ELSE IF HasSub(tf_consumer_loc, "me-") THEN "me"
              ELSE IF HasSub(tf_consumer_loc, "in-") THEN "in"
              ELSE "us"]

\* TerraformCloudProvider.get_status: None for a missing file and for a file
\* json.load rejects
get_status(f) ==
    LET NoStatus == [read |-> TRUE, none |-> TRUE, project_id |-> "UNKNOWN",
                     runtime_location |-> "-", environments |-> <<>>, instances |-> <<>>,
                     control_plane_location |-> NoneVal]
    IN  IF ~f.exists THEN NoStatus
        ELSE IF f.json = "invalid" THEN NoStatus
        ELSE map_state_to_status(f)

\* cloud/terraform.py lines 24-31: get_status has the project id only
status_state_path(project_id) ==
    <<"data_root", project_id, "tf", MAIN, "terraform.tfstate">>

\* update.py lines 28-29 with engine.py lines 21-23: below the staging directory
update_state_path(cache, project_id, suffix) ==
    <<cache, project_id>>
    \o (IF Truthy(suffix) THEN <<suffix>> ELSE <<>>)
    \o <<"states", MAIN, "terraform.tfstate">>

\* a caller reads the snapshot
GetStatus ==
    /\ ~snapshot.read
    /\ snapshot' = get_status(state_file)
    /\ paths_read' = [paths_read EXCEPT !.status = status_state_path(PROJECT)]
    /\ UNCHANGED read_vars
    /\ UNCHANGED <<main, stage, icmd, lib, state_file>>

\* apply without a template reads the variables: the file as `terraform show
\* -json` presents it, the command failing on a file that is not a state
ExtractVars ==
    LET f == state_file
        shown == [exists |-> f.exists,
                  managed |-> (IF f.org THEN {ORG} ELSE {})
                              \cup (IF Len(f.instances) > 0 THEN {INST} ELSE {})
                              \cup (IF Len(f.environments) > 0 THEN {ENVR} ELSE {}),
                  orgVals |-> [StdOrg EXCEPT !.api_consumer_data_location = f.consumer],
                  location |-> IF Len(f.instances) > 0 THEN f.instances[1]
                               ELSE "us-central1"]
        show_rc == IF f.json = "invalid" THEN 1 ELSE 0
    IN  /\ ~read_vars.read
        /\ read_vars' = [read |-> TRUE,
                         vars |-> extract_vars_from_state([x \in Suffixes |-> shown], show_rc)]
        /\ paths_read' = [paths_read EXCEPT !.extract = StatePath(PROJECT, MAIN, NoneVal)]
        /\ UNCHANGED snapshot
        /\ UNCHANGED <<main, stage, icmd, lib, state_file>>

\* update.py lines 26-66: the pre-check of `apim update`; of the files of the
\* model only the one the backend declares exists
UpdatePreCheck ==
    LET state_path == update_state_path(cache_dir, PROJECT, ConfigSuffix)
        there == state_path = StatePath(PROJECT, MAIN, ConfigSuffix) /\ state_file.exists
    IN  /\ paths_read.update = <<>>
        /\ paths_read' = [paths_read EXCEPT
                             !.update = state_path,
                             !.org_found = there /\ state_file.json = "ok" /\ state_file.org]
        /\ UNCHANGED <<snapshot, read_vars>>
        /\ UNCHANGED <<main, stage, icmd, lib, state_file>>

\* <data>/<project>/tf/1-main/terraform.tfstate may be absent, not JSON (for
\* instance zero bytes), the JSON object {}, or a state with resources
InitStatus ==
    /\ LibOff
    /\ MainOff
    /\ StageOff
    /\ IcmdOff
    /\ state_file \in
          { [exists |-> FALSE, json |-> "ok", org |-> FALSE, consumer |-> NoneVal,
             instances |-> <<>>, environments |-> <<>>] }
          \cup
          { [exists |-> TRUE, json |-> j, org |-> FALSE, consumer |-> NoneVal,
             instances |-> <<>>, environments |-> <<>>] : j \in {"invalid", "empty_object"} }
          \cup
          { [exists |-> TRUE, json |-> "ok", org |-> o, consumer |-> c, instances |-> i,
             environments |-> e] :
              o \in BOOLEAN,
              c \in {NoneVal, "northamerica-northeast1", "europe-west1",
                     "australia-southeast1", "asia-southeast1"},
              i \in {<<>>, <<"us-central1">>, <<"us-central1", "us-east1">>},
              e \in {<<>>, <<"dev">>, <<"dev", "test">>} }
    /\ snapshot = [read |-> FALSE, none |-> TRUE, project_id |-> "UNKNOWN",
                   runtime_location |-> "-", environments |-> <<>>, instances |-> <<>>,
                     control_plane_location |-> NoneVal]
    /\ read_vars = [read |-> FALSE, vars |-> EmptyVars]
    /\ paths_read = [extract |-> <<>>, update |-> <<>>, status |-> <<>>, org_found |-> FALSE]

NextStatus == GetStatus \/ ExtractVars \/ UpdatePreCheck

SpecStatus == InitStatus /\ [][NextStatus]_vars

----------------------------------------------------------------------------
(* The import command: commands/import_cmd.py import_cmd                    *)

\* ctx.exit(code) outside any try block ends the command with that code
ExitOutsideTry_zero(code) == 0
ExitOutsideTry(code) == code

\* core.py get_project_paths(name) takes exactly one positional argument
get_project_paths_accepts(nargs) == nargs = 1

\* import_cmd.py 48-50: --project and --label are mutually exclusive
ImportCheckFlags ==
    /\ ic_pc = "start"
    /\ IF ic_args.project # NoneVal /\ ic_args.label # NoneVal
       THEN /\ ic_pc' = "done"
            /\ ic_exit' = ExitOutsideTry(1)
       ELSE /\ ic_pc' = "paths"
            /\ UNCHANGED ic_exit
    /\ UNCHANGED <<ic_args, var_file, ci_in, ci>>
    /\ UNCHANGED <<main, stage, reader, lib>>

\* import_cmd.py 52: get_project_paths() is called without its argument, the
\* TypeError is caught nowhere, the process ends with status 1 and the rest of
\* the command never runs
ImportResolvePaths ==
    /\ ic_pc = "paths"
    /\ ~get_project_paths_accepts(0)
    /\ ic_pc' = "done"
    /\ ic_exit' = 1
    /\ UNCHANGED <<ic_args, var_file, ci_in, ci>>
    /\ UNCHANGED <<main, stage, reader, lib>>

\* --project, --label and --force, what the cloud would answer (the project a
\* label resolves to, whether the Apigee org is there, whether terraform import
\* succeeds) and the gcp_project_id of the local config file, None when absent
InitImportCmd ==
    /\ LibOff
    /\ MainOff
    /\ StageOff
    /\ ReaderOff
    /\ ic_pc = "start"
    /\ ic_args \in [project : {NoneVal, "p1", "p2"},
                    label : {NoneVal, "env=dev"},
                    force : BOOLEAN,
                    label_project : {NoneVal, "p1"},
                    org_found : BOOLEAN,
                    import_ok : BOOLEAN,
                    existing : {NoneVal, "p1", "p2"}]
    /\ var_file = ic_args.existing
    /\ ic_exit = NoCode
    /\ ci_in = [template |-> "none"]
    /\ ci = [pc |-> "off"]

NextImportCmd == ImportCheckFlags \/ ImportResolvePaths

SpecImportCmd == InitImportCmd /\ [][NextImportCmd]_vars

----------------------------------------------------------------------------
(* cmd_import: commands/import_.py                                          *)

\* the settings cmd_import resolves into final_vars
Settings == {"project_nickname", "domain_name", "apigee_analytics_region",
             "apigee_runtime_location", "control_plane_location"}

\* a dict without any of the settings: .get(key) is None
NoSettings == [k \in Settings |-> NoneVal]

\* variant: the existing config is consulted before the cloud
resolve_existingFirst(template_val, discovered_val, existing_val, default_val) ==
    [conflict |-> /\ template_val # NoneVal /\ discovered_val # NoneVal
                  /\ Truthy(template_val) /\ Truthy(discovered_val)
                  /\ template_val # discovered_val,
     value |-> IF template_val # NoneVal THEN template_val
               ELSE IF existing_val # NoneVal THEN existing_val
               ELSE IF discovered_val # NoneVal THEN discovered_val
               ELSE default_val]

\* lines 146-168: resolve; `conflict` stands for the sys.exit(1) of line 158
resolve(template_val, discovered_val, existing_val, default_val) ==
    [conflict |-> /\ template_val # NoneVal /\ discovered_val # NoneVal
                  /\ Truthy(template_val) /\ Truthy(discovered_val)
                  /\ template_val # discovered_val,
     value |-> IF template_val # NoneVal THEN template_val
               ELSE IF discovered_val # NoneVal THEN discovered_val
               ELSE IF existing_val # NoneVal THEN existing_val
               ELSE default_val]

\* lines 17-77: load the template, settle the project id (given as --project,
\* no labelled project), and clear or refuse a config of another project
CiLoad ==
    /\ ci.pc = "start"
    /\ IF ci_in.template = "bad"
       THEN ci' = [ci EXCEPT !.pc = "done", !.exit = 1]
       ELSE IF ci.var.exists /\ ci.var.pid # PROJECT
       THEN IF ~ci_in.force
            THEN ci' = [ci EXCEPT !.pc = "done", !.exit = 1]
            ELSE ci' = [ci EXCEPT !.pc = "probe",
                                  !.var = [@ EXCEPT !.exists = FALSE],
                                  !.existing = NoSettings]
       ELSE ci' = [ci EXCEPT !.pc = "probe"]
    /\ UNCHANGED <<ic_pc, ic_args, var_file, ic_exit, ci_in>>
    /\ UNCHANGED <<main, stage, reader, lib>>

\* lines 79-197: probe the cloud, then resolve the five settings in order
CiResolve ==
    LET org == ci_in.disc
        loc == org.consumer
        disc == [k \in Settings |->
                    CASE k = "apigee_analytics_region" ->
                            IF org.found THEN org.analytics ELSE NoneVal
                      [] k = "apigee_runtime_location" ->
                            IF org.found THEN org.runtime ELSE NoneVal
                      [] k = "control_plane_location" ->
                            IF org.found /\ loc = "northamerica-northeast1" THEN "ca"
                            ELSE IF org.found /\ loc = "europe-west1" THEN "eu"
                            ELSE NoneVal
                      [] OTHER -> NoneVal]
        default == [k \in Settings |->
                      CASE k = "project_nickname" -> "name"
                        [] k = "domain_name" -> ci_in.domain_template
                        [] k = "control_plane_location" -> ""
                        [] OTHER -> NoneVal]
        res == [k \in Settings |->
                  resolve(ci_in.tmpl[k], disc[k], ci.existing[k], default[k])]
    IN  /\ ci.pc = "probe"
        /\ IF \E k \in Settings : res[k].conflict
           THEN ci' = [ci EXCEPT !.pc = "done", !.exit = 1, !.disc = disc]
           ELSE ci' = [ci EXCEPT !.pc = "validate", !.disc = disc, !.default = default,
                                 !.final = [k \in Settings |-> res[k].value]]
        /\ UNCHANGED <<ic_pc, ic_args, var_file, ic_exit, ci_in>>
        /\ UNCHANGED <<main, stage, reader, lib>>

\* lines 199-213: required settings, and runtime = analytics when missing
CiValidate ==
    LET f == ci.final
        heuristic == Truthy(f["apigee_analytics_region"])
                     /\ ~Truthy(f["apigee_runtime_location"])
        missing == { k \in {"apigee_analytics_region", "apigee_runtime_location",
                            "domain_name"} : ~Truthy(f[k]) }
                   \ (IF heuristic THEN {"apigee_runtime_location"} ELSE {})
    IN  /\ ci.pc = "validate"
        /\ IF missing # {}
           THEN ci' = [ci EXCEPT !.pc = "done", !.exit = 1]
           ELSE ci' = [ci EXCEPT !.pc = "write",
                         !.final = IF heuristic
                                   THEN [f EXCEPT !["apigee_runtime_location"] =
                                                    f["apigee_analytics_region"]]
                                   ELSE f]
        /\ UNCHANGED <<ic_pc, ic_args, var_file, ic_exit, ci_in>>
        /\ UNCHANGED <<main, stage, reader, lib>>

\* lines 215-243: write the var file
CiWrite ==
    /\ ci.pc = "write"
    /\ ci' = [ci EXCEPT !.pc = "imports",
                        !.var = [exists |-> TRUE, written |-> TRUE, pid |-> PROJECT,
                                 vals |-> ci.final]]
    /\ UNCHANGED <<ic_pc, ic_args, var_file, ic_exit, ci_in>>
    /\ UNCHANGED <<main, stage, reader, lib>>

\* lines 245-254: generated_imports.tf, when the cloud holds an organization
CiImports ==
    /\ ci.pc = "imports"
    /\ ci' = [ci EXCEPT !.pc = "done", !.exit = 0, !.imports_written = ci_in.disc.found]
    /\ UNCHANGED <<ic_pc, ic_args, var_file, ic_exit, ci_in>>
    /\ UNCHANGED <<main, stage, reader, lib>>

\* the template (absent, unreadable, or given with some of the settings), what
\* the Apigee API reports, the config file of an earlier import, --force and
\* the domain_template setting
InitCmdImport ==
    /\ MainOff
    /\ tfvars.state_suffix = ""
    /\ StageOff
    /\ ReaderOff
    /\ LibOff
    /\ ic_pc = "off"
    /\ ic_args = [project |-> NoneVal, label |-> NoneVal, force |-> FALSE,
                  label_project |-> NoneVal, org_found |-> FALSE, import_ok |-> FALSE,
                  existing |-> NoneVal]
    /\ var_file = NoneVal
    /\ ic_exit = NoCode
    /\ \E template \in {"none", "bad", "ok"}, force \in BOOLEAN,
          dt \in {NoneVal, "name.example.com"},
          ta \in {NoneVal, "", "us-east1"}, tr \in {NoneVal, "us-east1"},
          tc \in {NoneVal, "ca"}, td \in {NoneVal, "t.example.com"},
          found \in BOOLEAN, da \in {NoneVal, "us-central1"},
          dl \in {NoneVal, "northamerica-northeast1", "europe-west1"},
          dr \in {NoneVal, "us-central1"},
          pid \in {NoneVal, PROJECT, "other"},
          ea \in {NoneVal, "us-west1"}, er \in {NoneVal, "us-west1"},
          ec \in {NoneVal, "eu"}, ed \in {NoneVal, "e.example.com"} :
          LET existing == [NoSettings EXCEPT !["apigee_analytics_region"] = ea,
                                             !["apigee_runtime_location"] = er,
                                             !["control_plane_location"] = ec,
                                             !["domain_name"] = ed]
          IN
          /\ template # "ok" => (ta = NoneVal /\ tr = NoneVal /\ tc = NoneVal /\ td = NoneVal)
          /\ ~found => (da = NoneVal /\ dl = NoneVal /\ dr = NoneVal)
          /\ pid = NoneVal => existing = NoSettings
          /\ ci_in = [template |-> template, force |-> force, domain_template |-> dt,
                      tmpl |-> [NoSettings EXCEPT !["apigee_analytics_region"] = ta,
                                                  !["apigee_runtime_location"] = tr,
                                                  !["control_plane_location"] = tc,
                                                  !["domain_name"] = td],
                      disc |-> [found |-> found, analytics |-> da, consumer |-> dl,
                                runtime |-> dr]]
          /\ ci = [pc |-> "start", exit |-> NoCode, existing |-> existing,
                   disc |-> NoSettings, default |-> NoSettings, final |-> NoSettings,
                   var |-> [exists |-> pid # NoneVal, written |-> FALSE, pid |-> pid,
                            vals |-> existing],
                   imports_written |-> FALSE]

NextCmdImport == CiLoad \/ CiResolve \/ CiValidate \/ CiWrite \/ CiImports

SpecCmdImport == InitCmdImport /\ [][NextCmdImport]_vars

----------------------------------------------------------------------------
(* Library functions: schemas.py ApigeeOrgConfig.validate / from_json_file  *)
(* and commands/tests.py _retry_terraform                                   *)

\* _retry_terraform, from iteration i of `for i in range(retries)`: codes[i+1]
\* is what the call of run_terraform in that iteration returns; the trace
\* lists the calls of run_terraform and of time.sleep in order
RECURSIVE retry_terraform(_, _, _, _, _)
retry_terraform(i, retries, codes, last_exit_code, trace) ==
    IF i >= retries
    THEN [done |-> TRUE, ret |-> last_exit_code, trace |-> trace]
    ELSE LET code == codes[i + 1]
             ran == Append(trace, [op |-> "run_terraform", rc |-> code])
         IN  IF code = 0
             THEN [done |-> TRUE, ret |-> 0, trace |-> ran]
             ELSE retry_terraform(i + 1, retries, codes, code,
                                  IF i < retries - 1
                                  THEN Append(ran, [op |-> "sleep", rc |-> 0])
                                  ELSE ran)

\* a JSON template is loaded: from_json_file raises on an unknown field and
\* otherwise constructs the config and calls validate
LibValidate ==
    /\ lib_in.kind = "config"
    /\ ~lib_out.done
    /\ lib_out' = [done |-> TRUE,
                   validate |-> validate(lib_in),
                   from_json_file |-> ~lib_in.unknown /\ validate(lib_in)]
    /\ UNCHANGED <<main, stage, reader, icmd, lib_in>>

\* _retry_terraform(config, command, retries=lib_in.retries)
LibRetry ==
    /\ lib_in.kind = "retry"
    /\ ~lib_out.done
    /\ lib_out' = retry_terraform(0, lib_in.retries, lib_in.codes, 0, <<>>)
    /\ UNCHANGED <<main, stage, reader, icmd, lib_in>>

\* the fields of a template file, each region absent, empty or given, and the
\* arguments of _retry_terraform with what each run_terraform would return
InitLib ==
    /\ MainOff
    /\ StageOff
    /\ ReaderOff
    /\ IcmdOff
    /\ lib_in \in
          [kind : {"config"}, unknown : BOOLEAN, drz : BOOLEAN,
           billing_type : {"EVALUATION", "PAYG"},
           analytics_region : {NoneVal, "", "us-east1"},
           runtime_location : {NoneVal, "", "us-east1"},
           control_plane_location : {NoneVal, "", "ca"},
           consumer_data_region : {NoneVal, "", "northamerica-northeast1"}]
          \cup
          [kind : {"retry"}, retries : 0..MaxRetries,
           codes : [1..MaxRetries -> {0, 1, 2}]]
    /\ lib_out = [done |-> FALSE]

NextLib == LibValidate \/ LibRetry

SpecLib == InitLib /\ [][NextLib]_vars

----------------------------------------------------------------------------
(* Properties *)

IsRunTerraform == inp.cli \in {"apply", "plan"}

\* indexes of the calls made in the 1-main staging directory
MainCalls == { i \in DOMAIN calls : calls[i].dir = MAIN }

\* indexes of the final plan / apply command of run_terraform
MainCmdCalls == { i \in DOMAIN calls : calls[i].dir = MAIN /\ calls[i].op \in {"apply", "plan"} }

\* C1: without skip_impersonation every 1-main call (staging, init, adoption,
\* plan/apply) comes after a successful read-back of a non-empty service
\* account email; when the bootstrap apply or the read-back fails, or the email
\* is empty, run_terraform returns 1 and no 1-main call is ever made.
C1_BootstrapGatesMain ==
    LET BootstrapFailure ==
            \/ \E i \in DOMAIN calls :
                  calls[i].dir = BOOT /\ calls[i].op \in {"apply", "output"} /\ calls[i].rc # 0
            \/ \E i \in DOMAIN calls :
                  calls[i].dir = BOOT /\ calls[i].op = "output" /\ calls[i].rc = 0 /\ sa_email = ""
    IN
    (IsRunTerraform /\ ~inp.skip_impersonation) =>
        /\ \A i \in MainCalls :
              /\ Truthy(sa_email)
              /\ \E j \in 1..(i - 1) :
                    calls[j].dir = BOOT /\ calls[j].op = "output" /\ calls[j].rc = 0
        /\ BootstrapFailure =>
              /\ MainCalls = {}
              /\ pc \in {"b_ret", "rt_ret", "done"}
              /\ pc \in {"rt_ret", "done"} => ret = 1
              /\ pc = "done" => exit_code = 1

\* a run whose bootstrap read back an empty email has ended with 1
C1_Witness ==
    /\ inp.cli = "apply" /\ ~inp.skip_impersonation
    /\ pc = "done" /\ sa_email = "" /\ ret = 1 /\ exit_code = 1
    /\ \E i \in DOMAIN calls : calls[i].op = "output" /\ calls[i].rc = 0

\* C2: when the final plan/apply command runs, either skip_impersonation was
\* requested or a handoff-verification step ran between bootstrap and main.
C2_HandoffVerifiedBeforeMain ==
    IsRunTerraform =>
        \A i \in MainCmdCalls :
            \/ inp.skip_impersonation
            \/ \E j \in 1..(i - 1) : calls[j].op = "verify_handoff"

\* C3: a nonzero exit code c of the final plan/apply command is the return
\* value of run_terraform and the process exit code of apply.
C3_ExitCodePropagated ==
    (inp.cli = "apply" /\ pc = "done") =>
        \A i \in MainCmdCalls :
            calls[i].rc # 0 => (ret = calls[i].rc /\ exit_code = calls[i].rc)

\* the template names an instance location other than the managed instance's
TemplateMismatch ==
    LET t == TemplateFile(inp.template)
        st == stateFiles[BackendKey]
    IN /\ inp.template # NoTemplate
       /\ t.found /\ ~t.unknown /\ validate(t)
       /\ INST \in st.managed
       /\ st.location # t.runtime_location

C5_NoTemplateNoStateAborts ==
    LET NoExtractableState ==
            LET st == stateFiles[""] IN
            \/ ~st.exists
            \/ st.managed \cap {ORG, INST} = {}
            \/ \E i \in DOMAIN calls : calls[i].op = "show" /\ calls[i].rc # 0
    IN
    (inp.cli = "apply" /\ inp.template = NoTemplate /\ pc \notin {"start", "idle"}
        /\ NoExtractableState) =>
        /\ pc = "done"
        /\ exit_code = 1
        /\ \A i \in DOMAIN calls : calls[i].dir \notin {BOOT, MAIN}

\* apply found a state file without organization or instance and gave up
C5_Witness ==
    /\ inp.cli = "apply" /\ inp.template = NoTemplate
    /\ stateFiles[""].exists /\ stateFiles[""].managed = {NET}
    /\ pc = "done" /\ why = "no_state" /\ exit_code = 1
    /\ \E i \in DOMAIN calls : calls[i].op = "show" /\ calls[i].rc = 0

\* C6: the injected variable map has one source: with a template, exactly the
\* template's fields plus the project id, and the state is never read; without
\* one, only values extracted from the state; the staged variables file holds
\* that map.
C6_SingleSource ==
    LET NoMutationYet ==
            \A i \in MainCalls : ~(calls[i].op \in {"import", "apply"} /\ calls[i].rc = 0)
    IN
    LET StateValueOk(k, v) ==
            LET st == stateFiles[""] IN
            CASE k = "apigee_billing_type" -> v = st.orgVals.billing_type
              [] k = "apigee_analytics_region" -> v = st.orgVals.analytics_region
              [] k = "consumer_data_region" -> v = st.orgVals.api_consumer_data_location
              [] k = "apigee_runtime_location" -> v = st.location
              [] k = "control_plane_location" ->
                    \/ v = ""
                    \/ v = "ca" /\ st.orgVals.api_consumer_data_location = "northamerica-northeast1"
                    \/ v = "eu" /\ st.orgVals.api_consumer_data_location = "europe-west1"
              [] OTHER -> FALSE
    IN
    (inp.cli = "apply" /\ tfvars.exists /\ pc \notin {"start", "idle"}) =>
        /\ (inp.template # NoTemplate /\ why # "template_error") =>
              LET t == TemplateFile(inp.template) IN
              /\ vars_to_inject =
                    [apigee_billing_type |-> t.billing_type,
                     apigee_runtime_location |-> t.runtime_location,
                     apigee_analytics_region |-> t.analytics_region,
                     control_plane_location |->
                        IF t.control_plane_location = NoneVal THEN ""
                        ELSE t.control_plane_location,
                     consumer_data_region |->
                        IF t.consumer_data_region = NoneVal THEN ""
                        ELSE t.consumer_data_region,
                     gcp_project_id |-> PROJECT]
              /\ \A i \in DOMAIN calls : calls[i].op # "show"
        /\ inp.template = NoTemplate =>
              /\ "gcp_project_id" \notin DOMAIN vars_to_inject
              /\ NoMutationYet =>
                    \A k \in DOMAIN vars_to_inject : StateValueOk(k, vars_to_inject[k])
        /\ (\E i \in MainCalls : calls[i].op = "inject_vars") => gen_vars = vars_to_inject

\* the east template was injected although the state holds a central instance
C6_Witness ==
    /\ inp.cli = "apply" /\ inp.template = "t_east"
    /\ stateFiles[""] = FullState
    /\ \E i \in MainCalls : calls[i].op = "inject_vars"
    /\ "apigee_runtime_location" \in DOMAIN gen_vars
    /\ gen_vars["apigee_runtime_location"] = "us-east1"

\* the candidates each caller hands to try_import
ExpectedCandidates ==
    IF inp.cli = "import"
    THEN << "google_apigee_organization.apigee_org",
            "google_compute_network.apigee_network",
            "google_apigee_instance.apigee_instance",
            "google_apigee_environment.apigee_env[dev]",
            "google_apigee_envgroup.envgroup[eval-group]" >>
    ELSE << "google_apigee_organization.apigee_org",
            "google_compute_network.apigee_network" >>

\* C7: whatever the import results, once adoption has started every candidate
\* is attempted and the invocation goes on to its next step.
C7_AdoptionNeverAborts ==
    (pc = "done" /\ \E i \in MainCalls : calls[i].op = "state_list") =>
        /\ \A k \in DOMAIN ExpectedCandidates :
              \E i \in MainCalls :
                  calls[i].op = "state_list" /\ calls[i].arg = ExpectedCandidates[k]
        /\ why \in {"imported", "main"}

\* C8: every import result is classified: exit 0 Imported, a not-found error
\* NotFoundRemotely, an already-managed error AlreadyManaged, anything else
\* Failed.
C8_ClassificationTotal ==
    [][ LET SpecOutcome(res) ==
                IF res.rc = 0 THEN "Imported"
                ELSE IF HasText(res.stderr, "Cannot import non-existent")
                        \/ HasText(res.stderr, "404")
                THEN "NotFoundRemotely"
                ELSE IF HasText(res.stderr, "already managed") THEN "AlreadyManaged"
                ELSE "Failed"
        IN  pc = "a_classify" =>
              /\ Len(records') = Len(records) + 1
              /\ records'[Len(records')].outcome = SpecOutcome(proc) ]_vars

\* C9: an import of a candidate is attempted exactly when the preceding state
\* list query does not report its address; an address in the managed state is
\* never imported, in this or in a later invocation.
C9_ImportIffNotReported ==
    /\ [](\A i \in MainCalls :
            /\ calls[i].op = "import" =>
                  /\ i > 1
                  /\ calls[i - 1].op = "state_list"
                  /\ calls[i - 1].arg = calls[i].arg
                  /\ calls[i].arg \notin calls[i - 1].out
            /\ (calls[i].op = "state_list" /\ i < Len(calls)) =>
                  (calls[i].arg \notin calls[i].out
                     <=> (calls[i + 1].op = "import" /\ calls[i + 1].arg = calls[i].arg)))
    /\ [][ \A a \in stateFiles[BackendKey].managed :
             ~( /\ Len(calls') = Len(calls) + 1
                /\ calls'[Len(calls')].op = "import"
                /\ calls'[Len(calls')].dir = MAIN
                /\ calls'[Len(calls')].arg = a ) ]_vars

\* a second invocation finds the organization that an earlier one imported
C9_Witness ==
    /\ runs = 2
    /\ stateFiles[BackendKey].managed = {ORG}
    /\ \E i \in MainCalls :
          calls[i].op = "state_list" /\ calls[i].arg = ORG /\ calls[i].out = {ORG}
    /\ \E i \in MainCalls : calls[i].op = "state_list" /\ calls[i].arg = NET

IsAttempt(c) == c.dir = MAIN /\ c.op = "state_list"

\* C10: the candidates are attempted one after another in the fixed order
\* organization, network, instance, environment, environment group, whatever
\* the earlier outcomes; an import directly follows its own state check.
C10_FixedOrder ==
    LET attempts == SelectSeq(calls, IsAttempt) IN
    /\ Len(attempts) <= Len(ExpectedCandidates)
    /\ \A k \in DOMAIN attempts : attempts[k].arg = ExpectedCandidates[k]
    /\ \A i \in MainCalls :
          calls[i].op = "import" =>
              (i > 1 /\ IsAttempt(calls[i - 1]) /\ calls[i - 1].arg = calls[i].arg)

\* the import command went through all five candidates with mixed outcomes
C10_Witness ==
    /\ inp.cli = "import" /\ pc = "done" /\ why = "imported"
    /\ Len(records) = 5
    /\ records[1].outcome = "Failed"
    /\ records[2].outcome = "NotFoundRemotely"
    /\ records[3].outcome = "Imported"
    /\ records[5].outcome = "Imported"

\* the directory an invocation is staging or working in
DirOf(p) == staging[stager[p].phase]

\* C11: when stage_phase returns, the staged directory is what the steps make
\* of an empty directory from the package sources, the project root and the
\* configuration: nothing an earlier run, a killed stage_phase or an earlier
\* command left there survives.
C11_StagingDependsOnInputsOnly ==
    LET StageSteps(d, phase_name, suffix, root) ==
            copy_user_files(
                generate_backend(copy_shared_modules(copy_phase_tf(d, phase_name)), phase_name, suffix),
                phase_name, root)
    IN
    \A p \in Invocations :
        At(p, "staged") =>
            /\ DirOf(p) = StageSteps(EmptyDir, stager[p].phase, ConfigSuffix, root_files)
            /\ \A n \in DOMAIN DirOf(p) :
                  DirOf(p)[n].origin \notin {"stale", "init", "generated"}

\* a second stage_phase of 1-main has returned after the first one was killed
C11_Witness ==
    /\ At(1, "staged")
    /\ stager[1].phase = MAIN
    /\ stager[1].n = 2
    /\ stager[1].kills = 1
    /\ USER_TF \in DOMAIN staging[MAIN]
    /\ GEN_TFVARS \notin DOMAIN staging[MAIN]

\* C12: when stage_phase returns, backend.tf in the staged directory declares
\* <data_root>/<project_id>[/<suffix>]/tf/<phase>/terraform.tfstate, whatever
\* the project root holds.
C12_BackendPointsAtStatePath ==
    \A p \in Invocations :
        At(p, "staged") =>
            /\ BACKEND_TF \in DOMAIN DirOf(p)
            /\ DirOf(p)[BACKEND_TF] =
                  Content("backend", StatePath(PROJECT, stager[p].phase, ConfigSuffix))

\* C13: a user file in a staging directory comes from the top of the project
\* root and is terraform.tfvars, *.auto.tfvars or *.auto.tfvars.json, or, in
\* 1-main only, a .tf file without the _apim_ prefix; 0-bootstrap never holds a
\* user .tf file.
C13_OnlyAllowedUserFiles ==
    \A ph \in {BOOT, MAIN} :
        \A n \in DOMAIN staging[ph] :
            staging[ph][n].origin = "user" =>
                /\ n \in root_files
                /\ n.dir = ""
                /\ \/ n = TFVARS
                   \/ n.ext \in {".auto.tfvars", ".auto.tfvars.json"}
                   \/ ph = MAIN /\ n.ext = ".tf" /\ n.prefix # "_apim_"

\* 1-main was staged from a root that also holds files that must stay out
C13_Witness ==
    /\ At(1, "staged")
    /\ stager[1].phase = MAIN
    /\ {USER_TF, RESERVED_TF, APIGEE_TFVARS, README, NESTED_TF} \subseteq root_files
    /\ USER_TF \in DOMAIN staging[MAIN]
    /\ staging[MAIN][USER_TF].origin = "user"
    /\ staging[MAIN][TFVARS].origin = "user"

\* C18: while an invocation is between its stage_phase and the end of its
\* command, no step of another invocation changes its staging directory.
C18_StagingExclusivelyOwned ==
    [][ \A p \in Invocations :
          (stager[p].pos \in {"staged", "running"} /\ stager'[p] = stager[p]) =>
              staging'[stager[p].phase] = staging[stager[p].phase] ]_vars

\* C14: with skip_impersonation nothing of the bootstrap phase is staged or run
\* and the 1-main subprocesses get the ambient environment; without it they
\* get GOOGLE_IMPERSONATE_SERVICE_ACCOUNT set to the bootstrapped account.
C14_ImpersonationIffNotSkipped ==
    IsRunTerraform =>
        /\ inp.skip_impersonation =>
              \A i \in DOMAIN calls : calls[i].dir = MAIN \/ calls[i].op = "show"
        /\ \A i \in { j \in MainCalls : calls[j].op \in {"init", "state_list", "import", "apply", "plan"} } :
              /\ calls[i].env.imp # osenv.imp <=> ~inp.skip_impersonation
              /\ ~inp.skip_impersonation => (calls[i].env.imp = sa_email /\ Truthy(sa_email))

\* an apply with --skip-impersonation ran its final command without the variable
C14_Witness ==
    /\ inp.cli = "apply" /\ inp.skip_impersonation
    /\ pc = "done"
    /\ \E i \in MainCmdCalls : calls[i].env.imp = EnvUnset /\ calls[i].env.quota = PROJECT

\* the bootstrap step has ended with a usable service account
BootstrapSucceeded ==
    /\ Truthy(sa_email)
    /\ \E i \in DOMAIN calls : calls[i].dir = BOOT /\ calls[i].op = "output" /\ calls[i].rc = 0

\* C15: with bootstrap_only no 1-main staging, init, import or plan/apply is
\* made; once the bootstrap step has succeeded the run is over, run_terraform
\* returns 0 and apply exits 0.
C15_BootstrapOnlyStops ==
    (inp.cli = "apply" /\ inp.bootstrap_only) =>
        /\ MainCalls = {}
        /\ pc \notin {"m_stage", "m_init", "a_check", "a_import", "a_classify", "m_exec"}
        /\ (BootstrapSucceeded \/ inp.skip_impersonation) =>
              /\ pc = "rt_ret" => ret = 0
              /\ (pc = "done" /\ why = "bootstrap_only") => (ret = 0 /\ exit_code = 0)
              /\ pc = "done" => why \in {"bootstrap_only", "no_config", "template_error", "no_state"}

\* apply --bootstrap-only has ended with 0 after a successful bootstrap
C15_Witness ==
    /\ inp.cli = "apply" /\ inp.bootstrap_only /\ ~inp.skip_impersonation
    /\ BootstrapSucceeded
    /\ pc = "done" /\ ret = 0 /\ exit_code = 0
    /\ MainCalls = {}

\* the bootstrap apply ended well and reported nothing added, changed or destroyed
BootstrapUnchanged ==
    \E i \in DOMAIN calls :
        /\ calls[i].dir = BOOT /\ calls[i].op = "apply" /\ calls[i].rc = 0
        /\ calls[i].out = Summary(FALSE)

\* C16: when the bootstrap apply reports no change, no handoff-verification
\* polling call is made in that run.
C16_NoPollingWhenUnchanged ==
    (IsRunTerraform /\ BootstrapUnchanged) =>
        \A i \in DOMAIN calls : calls[i].op # "verify_handoff"

\* an unchanged bootstrap was followed by the final command of the main phase
C16_Witness ==
    /\ inp.cli = "apply"
    /\ BootstrapUnchanged
    /\ BootstrapSucceeded
    /\ MainCmdCalls # {}

\* C17: a plan run, which never asks for adoption, issues no terraform import
\* and leaves the main-phase state as it found it.
C17_AdoptionOnlyOnRequest ==
    inp.cli = "plan" => \A i \in MainCalls : calls[i].op # "import"

\* C19: reading the state gives None exactly when there is no state file, and
\* a snapshot with empty environment and instance lists when the file is there
\* but holds no resource, so that a caller can tell the two cases apart.
C19_NoneIffNoStateFile ==
    LET EmptyButPresent ==
            /\ state_file.exists
            /\ ~state_file.org
            /\ state_file.instances = <<>>
            /\ state_file.environments = <<>>
    IN  snapshot.read =>
            /\ snapshot.none <=> ~state_file.exists
            /\ EmptyButPresent =>
                  (~snapshot.none /\ snapshot.environments = <<>>
                   /\ snapshot.instances = <<>>)

C21_ValidateAcceptsIff ==
    (lib_in.kind = "config" /\ lib_out.done) =>
        LET c == lib_in
            set(x) == x # NoneVal /\ x # ""
            wellFormed ==
                /\ set(c.runtime_location)
                /\ \/ /\ c.drz
                      /\ ~set(c.analytics_region)
                      /\ set(c.control_plane_location)
                      /\ set(c.consumer_data_region)
                      /\ c.billing_type # "EVALUATION"
                   \/ /\ ~c.drz
                      /\ ~set(c.control_plane_location)
                      /\ ~set(c.consumer_data_region)
                      /\ set(c.analytics_region)
        IN  /\ lib_out.validate <=> wellFormed
            /\ lib_out.from_json_file <=> (wellFormed /\ ~c.unknown)

\* a DRZ configuration, complete but billed as EVALUATION, is rejected
C21_Witness ==
    /\ lib_in.kind = "config"
    /\ lib_out.done
    /\ lib_in.drz
    /\ lib_in.billing_type = "EVALUATION"
    /\ lib_in.analytics_region = NoneVal
    /\ lib_in.control_plane_location = "ca"
    /\ lib_in.consumer_data_region = "northamerica-northeast1"
    /\ lib_in.runtime_location = "us-east1"
    /\ ~lib_out.validate

C22_TemplateConflictFails ==
    (ci.pc \in {"validate", "write", "imports", "done"} /\ ci_in.template = "ok") =>
        \A k \in Settings :
            LET t == ci_in.tmpl[k]
                d == ci.disc[k]
                e == ci.existing[k]
            IN  (Truthy(t) /\ ((Truthy(d) /\ d # t) \/ (Truthy(e) /\ e # t))) =>
                    /\ ci.pc = "done"
                    /\ ci.exit = 1
                    /\ ~ci.var.written
                    /\ ~ci.imports_written

\* C24: when no conflict is raised, every setting of cmd_import ends as the
\* first value that is not None in the order template, discovery, existing
\* config, default.
C24_FirstNotNone ==
    ci.pc \in {"validate", "write", "imports"} =>
        \A k \in Settings :
            ci.final[k] = IF ci_in.tmpl[k] # NoneVal THEN ci_in.tmpl[k]
                          ELSE IF ci.disc[k] # NoneVal THEN ci.disc[k]
                          ELSE IF ci.existing[k] # NoneVal THEN ci.existing[k]
                          ELSE ci.default[k]

\* C24 as the code has it: resolve returns the first value that is not None in
\* the order template, discovery, existing config, default, and that value is
\* written, except that an empty apigee_runtime_location is replaced by the
\* resolved apigee_analytics_region.
C24_FirstNotNoneButRuntime ==
    ci.pc \in {"validate", "write", "imports"} =>
        \A k \in Settings :
            LET first == IF ci_in.tmpl[k] # NoneVal THEN ci_in.tmpl[k]
                         ELSE IF ci.disc[k] # NoneVal THEN ci.disc[k]
                         ELSE IF ci.existing[k] # NoneVal THEN ci.existing[k]
                         ELSE ci.default[k]
            IN  /\ (ci.pc = "validate" \/ k # "apigee_runtime_location" \/ Truthy(first)) =>
                      ci.final[k] = first
                /\ (ci.pc # "validate" /\ k = "apigee_runtime_location" /\ ~Truthy(first)) =>
                      ci.final[k] = ci.final["apigee_analytics_region"]
                /\ ci.pc = "imports" => ci.var.vals[k] = ci.final[k]

\* the cloud's analytics region wins over a differing existing one, and the
\* runtime location, found nowhere, is taken from it
C24_Witness ==
    /\ ci.pc = "imports"
    /\ ci_in.tmpl["apigee_analytics_region"] = NoneVal
    /\ ci.disc["apigee_analytics_region"] = "us-central1"
    /\ ci.existing["apigee_analytics_region"] = "us-west1"
    /\ ci.var.vals["apigee_analytics_region"] = "us-central1"
    /\ ci_in.tmpl["apigee_runtime_location"] = NoneVal
    /\ ci.disc["apigee_runtime_location"] = NoneVal
    /\ ci.existing["apigee_runtime_location"] = NoneVal
    /\ ci.var.vals["apigee_runtime_location"] = "us-central1"

C30_FailedImportLeavesNoConfig ==
    (pc = "done" /\ inp.cli = "import" /\ exit_code \notin {0, NoCode}) =>
        ~(tfvars.exists /\ tfvars.generated)

\* C29: run_terraform never modifies the process-wide environment, and in a
\* sequence of runs a run with skip_impersonation that follows an impersonated
\* run passes no service identity to its 1-main commands.
C29_EnvironmentNotShared ==
    /\ osenv = [imp |-> EnvUnset, quota |-> EnvUnset]
    /\ (inp.cli \in {"apply", "plan"} /\ inp.skip_impersonation) =>
          /\ pc \in {"m_stage", "m_init", "a_check", "a_import", "a_classify", "m_exec"} =>
                env.imp = EnvUnset
          /\ \A i \in DOMAIN calls : calls[i].dir = MAIN => calls[i].env.imp = EnvUnset

\* after a run that impersonated, a run with skip_impersonation has executed
\* its final 1-main command without a service identity
C29_Witness ==
    /\ impersonated
    /\ inp.skip_impersonation
    /\ pc = "done"
    /\ \E i \in DOMAIN calls :
          /\ calls[i].dir = MAIN
          /\ calls[i].op \in {"apply", "plan"}
          /\ calls[i].env.imp = EnvUnset
          /\ calls[i].env.quota = PROJECT

\* C26: stage_phase never deletes a persisted state file: whatever the data
\* root and the cache root are, no step of staging changes the set of
\* terraform.tfstate files on disk.
C26_StagingKeepsStateFiles == [][tfstates' = tfstates]_vars

\* C27: every reader of the main-phase state opens the file the 1-main
\* backend declares: the paths read by extract_vars_from_state, by the update
\* pre-check and by the status provider equal get_state_path(project_id,
\* "1-main", state_suffix), with the suffix set or unset.
C27_ReadersReadBackendPath ==
    LET declared == StatePath(PROJECT, MAIN, ConfigSuffix)
    IN  /\ paths_read.extract # <<>> => paths_read.extract = declared
        /\ paths_read.update # <<>> => paths_read.update = declared
        /\ paths_read.status # <<>> => paths_read.status = declared

\* C28: for one consumer-data region the status mapper, the import command and
\* extract_vars_from_state infer the same control-plane code, fallback
\* included, so what status shows or import writes equals what apply extracts.
C28_SameControlPlaneCode ==
    (/\ snapshot.read /\ ~snapshot.none
     /\ read_vars.read
     /\ state_file.json = "ok" /\ state_file.org /\ Truthy(state_file.consumer)
     /\ "control_plane_location" \in DOMAIN read_vars.vars) =>
        /\ snapshot.control_plane_location = read_vars.vars["control_plane_location"]
        /\ ImportInferCp(state_file.consumer) = read_vars.vars["control_plane_location"]

====
